---- MODULE Spec2Model ----
(***************************************************************************)
(* Model of source/blender/draw/intern/draw_manager_shader.c:              *)
(*   - the deferred shader compilation (DRWShaderCompiler, its worker      *)
(*     drw_deferred_shader_compilation_exec, DRW_deferred_shader_remove,   *)
(*     drw_deferred_shader_add, DRW_shader_from_material / _from_world),   *)
(*     specification Spec;                                                 *)
(*   - the shader library (DRW_shader_library_add_file,                    *)
(*     DRW_shader_library_create_shader_string), specification LibSpec.    *)
(*                                                                         *)
(* Two threads exist: the main thread (public API, DRW_deferred_shader_    *)
(* remove, the window manager's job timer) and the job's worker thread.    *)
(* Main-thread handlers are sequential among themselves (mpc = "idle"      *)
(* between two of them) and interleave with the worker at every point      *)
(* where they touch shared state: a lock, a unit's status, the job's stop  *)
(* and ready flags.                                                        *)
(*                                                                         *)
(* Not in the source files at hand and modelled from the specification     *)
(* and from what the calls in draw_manager_shader.c require of them:       *)
(* GPU_material_compile / GPU_material_status (gpu_material.c) and the     *)
(* window manager's jobs (wm_jobs.c).  A compile on the calling thread or  *)
(* at teardown ends with the unit SUCCESS or FAILED; a compile on the      *)
(* worker thread may also leave it QUEUED, to be concluded at teardown     *)
(* (lines 148-149, 172-181).  One window manager, one window and           *)
(* one scene are modelled, hence one job.  gpu_context always travels with *)
(* gl_context and is not modelled apart from it; the UI notifications      *)
(* (do_update, WM_jobs_timer notes) are left out.                          *)
(***************************************************************************)
EXTENDS Integers, Sequences, FiniteSets, TLC

\* ------------------------------------------------------------------ bounds

\* Number of compilation units (GPUMaterial) that exist.
NumMats == 2

Mats == 1..NumMats

\* One DRWShaderCompiler is allocated per deferred submission, and a unit is
\* submitted for deferred compilation at most once (only when CREATED).
Comps == 1..NumMats

NULL == 0

\* Capacity of the shader library; 64 in the program (line 518), scaled down.
MAX_LIB == 3

\* Most BLENDER_REQUIRE directives in one source text.
MaxReq == 2

\* The file names fragments are registered under and directives name, as
\* strings of characters: "a", "ab", "b".
NameList == << <<1>>, <<1, 2>>, <<2>> >>

\* ------------------------------------------------------- program constants

GPU_MAT_CREATED == "CREATED"
GPU_MAT_QUEUED == "QUEUED"
GPU_MAT_SUCCESS == "SUCCESS"
GPU_MAT_FAILED == "FAILED"

\* Size of a libs_name entry (line 519).
MAX_LIB_NAME == 64

\* The character that ends the name in "BLENDER_REQUIRE(name)"; no file name
\* contains it.
CloseParen == 0

\* DST.gl_context, the main drawing context.
DST_gl_context == 1

\* The dedicated context created for compiler instance c (WM_opengl_context_create).
WM_opengl_context_create(c) == c + 1

\* The contexts there can be: the main one and the dedicated ones.
Contexts == {DST_gl_context} \cup {WM_opengl_context_create(c) : c \in Comps}

VARIABLES
  status,           \* GPUMaterial.status of every unit
  comp,             \* the DRWShaderCompiler instances (heap), by id
  job,              \* the wmJob "Shaders Compilation" of the scene
  use_main_context, \* GPU_use_main_context_workaround()
  ctx_live,         \* dedicated contexts created and not yet disposed
  wpc,              \* worker thread: position in drw_deferred_shader_compilation_exec
  w_total,          \* worker local 'total'
  w_ctx,            \* context active on the worker thread
  main_lock,        \* GPU_context_main_lock
  mpc,              \* main thread: position in the running handler
  m_call,           \* main thread: the running handler and its arguments
  m_comp,           \* DRW_deferred_shader_remove local 'comp'
  n_compile,        \* history: number of GPU_material_compile calls per unit
  unlinked,         \* history: units whose request remove unlinked from a queue
  removed,          \* history: units a DRW_deferred_shader_remove call has
                    \*          returned for, with no request added since
  batch,            \* history: "open" only deferred submissions so far and no pop,
                    \*          "draining" the same and the worker has popped,
                    \*          "void" anything else happened (an immediate or
                    \*          forced compile, a remove, a later submission, a kill)
  dsh_live,         \* history: per unit, the DRWDeferredShader requests allocated
                    \*          (line 214) and not freed (drw_deferred_shader_free)
  n_dispose,        \* history: per context, the WM_opengl_context_dispose calls
  submit_order,     \* history: the units in the order of their requests' BLI_addtail
                    \*          (line 249)
  compile_order,    \* history: the units in the order of the worker's
                    \*          GPU_material_compile calls (line 137)
  libs,             \* DRWShaderLibrary.libs, slots 0..MAX_LIB-1
  libs_name,        \* DRWShaderLibrary.libs_name
  libs_deps,        \* DRWShaderLibrary.libs_deps
  lib_op,           \* the last call on the library
  shader_code,      \* last argument of DRW_shader_library_create_shader_string
  shader_deps,      \* its local 'deps' after the recursive pass (line 621)
  shader_string     \* its result, as the sequence of the appended sources

compvars == <<status, comp, job, use_main_context, ctx_live, wpc, w_total, w_ctx,
              main_lock, mpc, m_call, m_comp, n_compile, unlinked, batch,
              dsh_live, n_dispose, submit_order, compile_order, removed>>

libvars == <<libs, libs_name, libs_deps, lib_op, shader_code, shader_deps,
             shader_string>>

vars == <<compvars, libvars>>

\* ------------------------------------------------------------ list helpers

\* BLI_findptr(&queue, mat, offsetof(DRWDeferredShader, mat)) != NULL
InList(q, mat) == \E i \in 1..Len(q) : q[i] = mat

\* BLI_remlink of the first request of the list that refers to mat.
RECURSIVE BLI_remlink(_, _)
BLI_remlink(q, mat) ==
  IF q = <<>> THEN <<>>
  ELSE IF Head(q) = mat THEN Tail(q)
  ELSE <<Head(q)>> \o BLI_remlink(Tail(q), mat)

ListSet(q) == {q[i] : i \in 1..Len(q)}

\* ------------------------------------------------------- DRWShaderCompiler

\* MEM_callocN(sizeof(DRWShaderCompiler)) + BLI_spin_init + BLI_mutex_init
NewComp ==
  [mem |-> "live", queue |-> <<>>, queue_conclude |-> <<>>, list_lock |-> "free",
   mat_compiling |-> NULL, compilation_lock |-> "free", gl_context |-> NULL,
   own_context |-> FALSE, shaders_done |-> 0]

\* A slot of the heap that was never allocated, or was freed (MEM_freeN(comp)).
NoComp(mem) == [NewComp EXCEPT !.mem = mem]

\* The id MEM_callocN returns: ids are never reused.
AllocComp == CHOOSE c \in Comps : comp[c].mem = "unalloc" /\
                 \A d \in Comps : d < c => comp[d].mem # "unalloc"

\* --------------------------------------------------------------- GPU material

\* GPU_material_compile(mat): the backend's compile(unit) -> success | error.
\* ok is the driver's verdict for the unit's shader; a unit whose pass is
\* already compiled keeps its result.
GPU_material_compile(st, mat, ok) ==
  IF st[mat] \in {GPU_MAT_SUCCESS, GPU_MAT_FAILED} THEN st
  ELSE [st EXCEPT ![mat] = IF ok THEN GPU_MAT_SUCCESS ELSE GPU_MAT_FAILED]

\* -------------------------------------------------------------------- wm jobs

NoJob ==
  [customdata |-> NULL, run_customdata |-> NULL, running |-> FALSE,
   suspended |-> FALSE, stop |-> FALSE, ready |-> FALSE, start_delay |-> FALSE,
   progress |-> <<0, 1>>]

\* WM_jobs_test(wm, scene, WM_JOB_TYPE_SHADER_COMPILATION)
WM_jobs_test(j) == j.running \/ j.suspended

\* WM_jobs_customdata_get: the pending custom data if there is one, else the
\* custom data of the running worker.
WM_jobs_customdata_get(j) ==
  IF j.customdata # NULL THEN j.customdata ELSE j.run_customdata

\* WM_jobs_start that does not wait for the running worker to end: the
\* pending custom data becomes the running one at once.
WM_jobs_start_Replaces(j) ==
  IF j.customdata = NULL THEN j
  ELSE [j EXCEPT !.suspended = FALSE, !.run_customdata = j.customdata,
                 !.customdata = NULL, !.running = TRUE, !.stop = FALSE,
                 !.ready = FALSE, !.progress = <<0, 1>>]

\* WM_jobs_start: a running job is told to stop (it restarts with the pending
\* data once it has ended); a job with a start delay waits one timer step.
WM_jobs_start(j) ==
  IF j.running THEN [j EXCEPT !.stop = TRUE]
  ELSE IF j.customdata = NULL THEN j
  ELSE IF j.start_delay THEN [j EXCEPT !.suspended = TRUE, !.start_delay = FALSE]
  ELSE [j EXCEPT !.suspended = FALSE, !.run_customdata = j.customdata,
                 !.customdata = NULL, !.running = TRUE, !.stop = FALSE,
                 !.ready = FALSE, !.progress = <<0, 1>>]

\* The worker thread WM_jobs_start spawns when the job goes from j to k.
Spawned(j, k) == ~j.running /\ k.running

\* ---------------------------------------------------------------- teardown

\* ConcludeAll without line 177: the conclude list is freed uncompiled.
ConcludeAll_Skips(st, nc, q, oks) == [status |-> st, n_compile |-> nc]

\* The loop of drw_deferred_shader_compilation_free over queue_conclude:
\* BLI_poptail, GPU_material_compile, drw_deferred_shader_free.
RECURSIVE ConcludeAll(_, _, _, _)
ConcludeAll(st, nc, q, oks) ==
  IF q = <<>> THEN [status |-> st, n_compile |-> nc]
  ELSE LET mat == q[Len(q)]
       IN ConcludeAll(GPU_material_compile(st, mat, oks[mat]),
                      [nc EXCEPT ![mat] = @ + 1],
                      SubSeq(q, 1, Len(q) - 1), oks)

\* drw_deferred_shader_free of every request of the list q.
RECURSIVE FreeAll(_, _)
FreeAll(live, q) ==
  IF q = <<>> THEN live
  ELSE FreeAll([live EXCEPT ![Head(q)] = @ - 1], Tail(q))

\* Free_DestroysContext without the test of line 186.
Free_DestroysContext_Always(cp) == TRUE

\* The context is destroyed only if the instance owns it.
Free_DestroysContext(cp) == cp.own_context

\* Free_Conclude that also calls GPU_material_compile for the requests of the
\* pending queue before freeing them.
Free_Conclude_CompilesPending(S, c, oks) ==
  LET r == ConcludeAll(S.status, S.n_compile, S.comp[c].queue_conclude, oks)
  IN [S EXCEPT !.comp[c].queue = <<>>,
               !.comp[c].queue_conclude = <<>>,
               !.status = r.status,
               !.n_compile = [m \in Mats |->
                                r.n_compile[m] +
                                Cardinality({i \in 1..Len(S.comp[c].queue) :
                                               S.comp[c].queue[i] = m})],
               !.dsh_live = FreeAll(FreeAll(S.dsh_live, S.comp[c].queue),
                                    S.comp[c].queue_conclude)]

\* drw_deferred_shader_compilation_free(comp) on the memory S = [comp, status,
\* n_compile, ctx_live, dsh_live, n_dispose], lines 170-181: the pending queue
\* is freed without compiling, the conclude list is compiled and freed.
Free_Conclude(S, c, oks) ==
  LET r == ConcludeAll(S.status, S.n_compile, S.comp[c].queue_conclude, oks)
  IN [S EXCEPT !.comp[c].queue = <<>>,
               !.comp[c].queue_conclude = <<>>,
               !.status = r.status,
               !.n_compile = r.n_compile,
               !.dsh_live = FreeAll(FreeAll(S.dsh_live, S.comp[c].queue),
                                    S.comp[c].queue_conclude)]

\* Lines 183-196: the context is destroyed if owned, the instance is freed.
Free_Dispose(S, c) ==
  [S EXCEPT !.comp[c] = NoComp("freed"),
            !.ctx_live = IF Free_DestroysContext(S.comp[c])
                         THEN S.ctx_live \ {S.comp[c].gl_context}
                         ELSE S.ctx_live,
            !.n_dispose = IF Free_DestroysContext(S.comp[c])
                          THEN [S.n_dispose EXCEPT ![S.comp[c].gl_context] = @ + 1]
                          ELSE S.n_dispose]

drw_deferred_shader_compilation_free(S, c, oks) ==
  Free_Dispose(Free_Conclude(S, c, oks), c)

Memory == [comp |-> comp, status |-> status, n_compile |-> n_compile,
           ctx_live |-> ctx_live, dsh_live |-> dsh_live,
           n_dispose |-> n_dispose]

\* ------------------------------------------------------------------ worker
\* drw_deferred_shader_compilation_exec, run by the job's thread on
\* job.run_customdata.

RunComp == job.run_customdata

\* Lines 94-109: the worker takes the main-context lock if the workaround is
\* active and activates the instance's context.
Exec_Begin ==
  /\ wpc = "begin"
  /\ use_main_context => main_lock = "free"
  /\ main_lock' = IF use_main_context THEN "worker" ELSE main_lock
  /\ w_ctx' = comp[RunComp].gl_context
  /\ wpc' = "lock"
  /\ UNCHANGED <<status, comp, job, use_main_context, ctx_live, w_total, mpc,
                 m_call, m_comp, n_compile, unlinked, batch>>
  /\ UNCHANGED <<dsh_live, n_dispose>>
  /\ UNCHANGED libvars
  /\ UNCHANGED <<submit_order, compile_order, removed>>

\* Line 112: BLI_spin_lock(&comp->list_lock).
Exec_SpinLock ==
  /\ wpc = "lock"
  /\ comp[RunComp].list_lock = "free"
  /\ comp' = [comp EXCEPT ![RunComp].list_lock = "worker"]
  /\ wpc' = "pop"
  /\ UNCHANGED <<status, job, use_main_context, ctx_live, w_total, w_ctx,
                 main_lock, mpc, m_call, m_comp, n_compile, unlinked, batch>>
  /\ UNCHANGED <<dsh_live, n_dispose>>
  /\ UNCHANGED libvars
  /\ UNCHANGED <<submit_order, compile_order, removed>>

\* Exec_StopRequested without line 114: the worker never looks at stop.
Exec_StopRequested_Never(j) == FALSE

\* Line 114: *stop != 0, read under list_lock at the top of the loop.
Exec_StopRequested(j) == j.stop

\* BLI_pophead in the place of BLI_poptail.
BLI_pophead(q) == [link |-> Head(q), rest |-> Tail(q)]

\* BLI_poptail of a list that is not empty: the link removed, the list left.
BLI_poptail(q) == [link |-> q[Len(q)], rest |-> SubSeq(q, 1, Len(q) - 1)]

\* Exec_Total with the queue counted before the pop.
Exec_Total_BeforePop(queue_count, shaders_done) == (queue_count + 1) + shaders_done

\* Line 131: total = BLI_listbase_count(&comp->queue) + comp->shaders_done,
\* after the pop and the increment.
Exec_Total(queue_count, shaders_done) == queue_count + shaders_done

\* Lines 114-131, under list_lock: leave on stop, else pop the tail; leave if
\* there was none, else count it and compute total.
Exec_Pop ==
  /\ wpc = "pop"
  /\ LET c == RunComp
         q == comp[c].queue
     IN IF Exec_StopRequested(job)
        THEN /\ comp' = [comp EXCEPT ![c].list_lock = "free"]
             /\ wpc' = "exit"
             /\ UNCHANGED <<w_total, batch>>
        ELSE IF q = <<>>
        THEN /\ comp' = [comp EXCEPT ![c].mat_compiling = NULL,
                                     ![c].list_lock = "free"]
             /\ wpc' = "exit"
             /\ UNCHANGED <<w_total, batch>>
        ELSE /\ comp' = [comp EXCEPT ![c].mat_compiling = BLI_poptail(q).link,
                                     ![c].queue = BLI_poptail(q).rest,
                                     ![c].shaders_done = @ + 1]
             /\ w_total' = Exec_Total(Len(BLI_poptail(q).rest),
                                      comp[c].shaders_done + 1)
             /\ wpc' = "mutex"
             /\ batch' = IF batch = "open" THEN "draining" ELSE batch
  /\ UNCHANGED <<status, job, use_main_context, ctx_live, w_ctx, main_lock, mpc,
                 m_call, m_comp, n_compile, unlinked>>
  /\ UNCHANGED <<dsh_live, n_dispose>>
  /\ UNCHANGED libvars
  /\ UNCHANGED <<submit_order, compile_order, removed>>

\* Exec_LockCompilation without line 134: list_lock is kept over the compile.
Exec_LockCompilation_KeepsSpin(cp) == [cp EXCEPT !.compilation_lock = "worker"]

\* Lines 133-134: BLI_mutex_lock(&comp->compilation_lock), then
\* BLI_spin_unlock(&comp->list_lock).
Exec_LockCompilation(cp) ==
  [cp EXCEPT !.compilation_lock = "worker", !.list_lock = "free"]

Exec_Mutex ==
  /\ wpc = "mutex"
  /\ comp[RunComp].compilation_lock = "free"
  /\ comp' = [comp EXCEPT ![RunComp] = Exec_LockCompilation(comp[RunComp])]
  /\ wpc' = "compile"
  /\ UNCHANGED <<status, job, use_main_context, ctx_live, w_total, w_ctx,
                 main_lock, mpc, m_call, m_comp, n_compile, unlinked, batch>>
  /\ UNCHANGED <<dsh_live, n_dispose>>
  /\ UNCHANGED libvars
  /\ UNCHANGED <<submit_order, compile_order, removed>>

\* Line 137: GPU_material_compile(comp->mat_compiling->mat) is entered ...
Exec_CompileCall ==
  /\ wpc = "compile"
  /\ n_compile' = [n_compile EXCEPT ![comp[RunComp].mat_compiling] = @ + 1]
  /\ compile_order' = Append(compile_order, comp[RunComp].mat_compiling)
  /\ wpc' = "compiling"
  /\ UNCHANGED <<status, comp, job, use_main_context, ctx_live, w_total, w_ctx,
                 main_lock, mpc, m_call, m_comp, unlinked, batch>>
  /\ UNCHANGED <<dsh_live, n_dispose, submit_order, removed>>
  /\ UNCHANGED libvars

\* What the worker's call of GPU_material_compile leaves in the unit's status
\* for line 148 to read: the driver's verdict, or QUEUED still when the
\* compile is to be concluded in the context the shader will be deleted in
\* (line 173).
Exec_Compile(st, mat, ok, finalized) ==
  IF finalized THEN GPU_material_compile(st, mat, ok) ELSE st

\* ... and returns.
Exec_CompileReturn ==
  /\ wpc = "compiling"
  /\ \E ok \in BOOLEAN, finalized \in BOOLEAN :
       status' = Exec_Compile(status, comp[RunComp].mat_compiling, ok, finalized)
  /\ wpc' = "flush"
  /\ UNCHANGED <<comp, job, use_main_context, ctx_live, w_total, w_ctx,
                 main_lock, mpc, m_call, m_comp, n_compile, unlinked, batch>>
  /\ UNCHANGED <<dsh_live, n_dispose>>
  /\ UNCHANGED libvars
  /\ UNCHANGED <<submit_order, compile_order, removed>>

\* Exec_UnlockCompilation without line 145: the worker keeps compilation_lock.
Exec_UnlockCompilation_Keeps(cp) == cp

\* Line 145: BLI_mutex_unlock(&comp->compilation_lock).
Exec_UnlockCompilation(cp) == [cp EXCEPT !.compilation_lock = "free"]

\* Lines 139-145: progress, GPU_flush, BLI_mutex_unlock(&comp->compilation_lock).
Exec_Unlock ==
  /\ wpc = "flush"
  /\ job' = [job EXCEPT !.progress = <<comp[RunComp].shaders_done, w_total>>]
  /\ comp' = [comp EXCEPT ![RunComp] = Exec_UnlockCompilation(@)]
  /\ wpc' = "relock"
  /\ UNCHANGED <<status, use_main_context, ctx_live, w_total, w_ctx, main_lock,
                 mpc, m_call, m_comp, n_compile, unlinked, batch>>
  /\ UNCHANGED <<dsh_live, n_dispose>>
  /\ UNCHANGED libvars
  /\ UNCHANGED <<submit_order, compile_order, removed>>

\* Line 147: BLI_spin_lock(&comp->list_lock).
Exec_SpinRelock ==
  /\ wpc = "relock"
  /\ comp[RunComp].list_lock = "free"
  /\ comp' = [comp EXCEPT ![RunComp].list_lock = "worker"]
  /\ wpc' = "conclude"
  /\ UNCHANGED <<status, job, use_main_context, ctx_live, w_total, w_ctx,
                 main_lock, mpc, m_call, m_comp, n_compile, unlinked, batch>>
  /\ UNCHANGED <<dsh_live, n_dispose>>
  /\ UNCHANGED libvars
  /\ UNCHANGED <<submit_order, compile_order, removed>>

\* Exec_KeepsRequest without the test of line 148.
Exec_KeepsRequest_Always(st) == TRUE

\* Line 148: the request goes to the conclude list if the unit is still QUEUED.
Exec_KeepsRequest(st) == st = GPU_MAT_QUEUED

\* Lines 148-155, under list_lock: the unit's status is read; the request is
\* appended to queue_conclude or freed; mat_compiling is reset.
Exec_Conclude ==
  /\ wpc = "conclude"
  /\ LET c == RunComp
         mat == comp[c].mat_compiling
     IN /\ comp' = [comp EXCEPT
                   ![c].queue_conclude =
                       IF Exec_KeepsRequest(status[mat]) THEN Append(@, mat) ELSE @,
                   ![c].mat_compiling = NULL,
                   ![c].list_lock = "free"]
        /\ dsh_live' = IF Exec_KeepsRequest(status[mat]) THEN dsh_live
                        ELSE [dsh_live EXCEPT ![mat] = @ - 1]
  /\ wpc' = "lock"
  /\ w_total' = 0
  /\ UNCHANGED <<status, job, use_main_context, ctx_live, w_ctx, main_lock, mpc,
                 m_call, m_comp, n_compile, unlinked, batch, n_dispose>>
  /\ UNCHANGED libvars
  /\ UNCHANGED <<submit_order, compile_order, removed>>

\* Lines 158-163 and the end of the job's thread (do_job_thread sets ready).
Exec_End ==
  /\ wpc = "exit"
  /\ w_ctx' = NULL
  /\ main_lock' = "free"
  /\ job' = [job EXCEPT !.ready = TRUE]
  /\ wpc' = "none"
  /\ UNCHANGED <<status, comp, use_main_context, ctx_live, w_total, mpc, m_call,
                 m_comp, n_compile, unlinked, batch>>
  /\ UNCHANGED <<dsh_live, n_dispose>>
  /\ UNCHANGED libvars
  /\ UNCHANGED <<submit_order, compile_order, removed>>

\* ------------------------------------------------------------- main thread

\* No handler is running.  Fields of a running handler: fn, the function called
\* from outside; mat, arg_deferred, image_render, its arguments and
\* DRW_state_is_image_render(); deferred, its variable 'deferred'; stage, which
\* call of drw_deferred_shader_add it is in; evil_C, DST.draw_ctx.evil_C !=
\* NULL as line 203 reads it when the call submits a CREATED unit;
\* in_queue, whether a queue held a request of mat when a call that forces
\* the compile began; dsh and waited, what DRW_deferred_shader_remove found
\* and did.
NoCall ==
  [fn |-> "none", mat |-> NULL, arg_deferred |-> FALSE, deferred |-> FALSE,
   image_render |-> FALSE, evil_C |-> FALSE, stage |-> "none", in_queue |-> FALSE,
   dsh |-> FALSE, waited |-> FALSE]

\* A queue of a live instance holds a request of mat.
InSomeQueue(mat) ==
  \E c \in Comps : comp[c].mem = "live" /\ InList(comp[c].queue, mat)

\* Add_Immediate without the test of evil_C.
Add_Immediate_AnyContext(deferred, image_render, evil_C) == image_render \/ ~deferred

\* Line 203: drw_deferred_shader_add compiles at once (USE_DEFERRED_COMPILATION
\* is 1) when there is no UI context, in image-render mode or if not deferred.
Add_Immediate(deferred, image_render, evil_C) ==
  ~evil_C \/ image_render \/ ~deferred

\* Where drw_deferred_shader_add(mat, deferred) starts: at the call of
\* DRW_deferred_shader_remove (line 207) or on the deferred path (line 211).
Add_Enter(deferred, image_render, evil_C) ==
  IF Add_Immediate(deferred, image_render, evil_C) THEN "remove" ELSE "add_deferred"

\* Material_Deferred without lines 476-479.
Material_Deferred_AsAsked(deferred, image_render) == deferred

\* Lines 476-479: DRW_shader_from_material does not defer in image-render mode.
Material_Deferred(deferred, image_render) ==
  IF image_render THEN FALSE ELSE deferred

\* Line 481: "Shader has been already queued".
Material_AlreadyQueued(deferred, image_render, st) ==
  deferred /\ st = GPU_MAT_QUEUED

\* Line 439, the same test in DRW_shader_from_world.
World_AlreadyQueued(deferred, image_render, st) ==
  ~image_render /\ deferred /\ st = GPU_MAT_QUEUED

\* From_Submits that also submits a unit that is QUEUED already.
From_Submits_Queued(st) == st \in {GPU_MAT_CREATED, GPU_MAT_QUEUED}

\* From_Submits that also resubmits a unit whose compile has ended.
From_Submits_Finished(st) == st # GPU_MAT_QUEUED

\* Lines 444 and 486: a unit is marked QUEUED and submitted when it is CREATED.
From_Submits(st) == st = GPU_MAT_CREATED

\* From_Forces without the test of deferred: every queued unit is forced.
From_Forces_AnyQueued(deferred, st) == st = GPU_MAT_QUEUED

\* Lines 449 and 491: "Force compilation for shaders already queued".
From_Forces(deferred, st) == ~deferred /\ st = GPU_MAT_QUEUED

\* Lines 439-453 and 481-495, the part DRW_shader_from_world and
\* DRW_shader_from_material share, up to the first call of
\* drw_deferred_shader_add or to the return.  call.deferred is the function's
\* variable 'deferred' at that point.
From_Body(call, evil_C, already) ==
  LET mat == call.mat
  IN IF already
     THEN /\ mpc' = "return"
          /\ m_call' = call
          /\ UNCHANGED <<status, batch>>
     ELSE IF From_Submits(status[mat])
     THEN /\ status' = [status EXCEPT ![mat] = GPU_MAT_QUEUED]
          /\ mpc' = Add_Enter(call.deferred, call.image_render, evil_C)
          /\ m_call' = [call EXCEPT !.stage = "first", !.evil_C = evil_C]
          /\ batch' = IF batch = "open" /\
                         ~Add_Immediate(call.deferred, call.image_render, evil_C)
                      THEN "open" ELSE "void"
     ELSE IF From_Forces(call.deferred, status[mat])
     THEN /\ mpc' = Add_Enter(FALSE, call.image_render, evil_C)
          /\ m_call' = [call EXCEPT !.stage = "forced",
                                    !.in_queue = InSomeQueue(mat)]
          /\ batch' = "void"
          /\ UNCHANGED status
     ELSE /\ mpc' = "return"
          /\ m_call' = call
          /\ UNCHANGED <<status, batch>>

DRW_shader_from_material(mat, deferred, image_render, evil_C) ==
  /\ mpc = "idle"
  /\ LET d == Material_Deferred(deferred, image_render)
     IN From_Body([NoCall EXCEPT !.fn = "material", !.mat = mat,
                                 !.arg_deferred = deferred, !.deferred = d,
                                 !.image_render = image_render],
                  evil_C, Material_AlreadyQueued(d, image_render, status[mat]))
  /\ UNCHANGED <<comp, job, use_main_context, ctx_live, wpc, w_total, w_ctx,
                 main_lock, m_comp, n_compile, unlinked>>
  /\ UNCHANGED <<dsh_live, n_dispose>>
  /\ UNCHANGED libvars
  /\ UNCHANGED <<submit_order, compile_order, removed>>

DRW_shader_from_world(mat, deferred, image_render, evil_C) ==
  /\ mpc = "idle"
  /\ From_Body([NoCall EXCEPT !.fn = "world", !.mat = mat,
                              !.arg_deferred = deferred, !.deferred = deferred,
                              !.image_render = image_render],
               evil_C, World_AlreadyQueued(deferred, image_render, status[mat]))
  /\ UNCHANGED <<comp, job, use_main_context, ctx_live, wpc, w_total, w_ctx,
                 main_lock, m_comp, n_compile, unlinked>>
  /\ UNCHANGED <<dsh_live, n_dispose>>
  /\ UNCHANGED libvars
  /\ UNCHANGED <<submit_order, compile_order, removed>>

\* Lines 449-453 and 491-495 after the first drw_deferred_shader_add returned:
\* drw_deferred_shader_add(mat, false) takes the immediate path whatever
\* evil_C is.
From_ForceCheck ==
  /\ mpc = "force_check"
  /\ IF From_Forces(m_call.deferred, status[m_call.mat])
     THEN /\ \E evil_C \in BOOLEAN :
               mpc' = Add_Enter(FALSE, m_call.image_render, evil_C)
          /\ m_call' = [m_call EXCEPT !.stage = "forced"]
     ELSE /\ mpc' = "return"
          /\ UNCHANGED m_call
  /\ UNCHANGED <<status, comp, job, use_main_context, ctx_live, wpc, w_total,
                 w_ctx, main_lock, m_comp, n_compile, unlinked, batch>>
  /\ UNCHANGED <<dsh_live, n_dispose>>
  /\ UNCHANGED libvars
  /\ UNCHANGED <<submit_order, compile_order, removed>>

\* The running handler returns to its caller outside this file.
Return ==
  /\ mpc = "return"
  /\ mpc' = "idle"
  /\ m_call' = NoCall
  /\ UNCHANGED <<status, comp, job, use_main_context, ctx_live, wpc, w_total,
                 w_ctx, main_lock, m_comp, n_compile, unlinked, batch>>
  /\ UNCHANGED <<dsh_live, n_dispose>>
  /\ UNCHANGED libvars
  /\ UNCHANGED <<submit_order, compile_order, removed>>

\* Remove_Unlink without line 298: the request stays in the queue.
Remove_Unlink_Keeps(q, mat) == q

\* Remove_Unlink that empties the queue when it finds the request.
Remove_Unlink_All(q, mat) == IF InList(q, mat) THEN <<>> ELSE q

\* Lines 295-299: the request of mat is unlinked from the queue if it is there.
Remove_Unlink(q, mat) == IF InList(q, mat) THEN BLI_remlink(q, mat) ELSE q

\* Line 302: the worker of this instance is compiling mat.
Remove_MustWait(cp, mat) == cp.mat_compiling # NULL /\ cp.mat_compiling = mat

\* Where DRW_deferred_shader_remove returns to: its caller outside this file,
\* or line 208 of drw_deferred_shader_add.
Remove_ReturnTo(call) == IF call.fn = "remove" THEN "return" ELSE "compile"

\* DRW_deferred_shader_remove(mat), lines 280-315, up to its return or to the
\* wait for the compile.  No job (WM_jobs_test) or no custom data: nothing to
\* do.  Else, under the list_lock of the job's custom data, the request is
\* unlinked; if the instance is compiling mat, list_lock is kept and
\* compilation_lock awaited; else list_lock is released, the unlinked request
\* is freed and remove returns.
Remove_Body(call) ==
  LET c == WM_jobs_customdata_get(job)
      mat == call.mat
  IN IF ~WM_jobs_test(job) \/ c = NULL
     THEN /\ mpc' = Remove_ReturnTo(call)
          /\ m_call' = call
          /\ removed' = removed \cup {mat}
          /\ UNCHANGED <<comp, m_comp, unlinked, dsh_live>>
     ELSE /\ comp[c].list_lock = "free"
          /\ m_call' = [call EXCEPT !.dsh = InList(comp[c].queue, mat)]
          /\ unlinked' = IF InList(comp[c].queue, mat)
                         THEN unlinked \cup {mat} ELSE unlinked
          /\ IF Remove_MustWait(comp[c], mat)
             THEN /\ comp' = [comp EXCEPT ![c].queue = Remove_Unlink(@, mat),
                                          ![c].list_lock = "main"]
                  /\ mpc' = "remove_wait"
                  /\ m_comp' = c
                  /\ UNCHANGED <<dsh_live, removed>>
             ELSE /\ comp' = [comp EXCEPT ![c].queue = Remove_Unlink(@, mat)]
                  /\ mpc' = Remove_ReturnTo(call)
                  /\ dsh_live' = IF InList(comp[c].queue, mat)
                                  THEN [dsh_live EXCEPT ![mat] = @ - 1]
                                  ELSE dsh_live
                  /\ removed' = removed \cup {mat}
                  /\ UNCHANGED m_comp

\* A call of DRW_deferred_shader_remove(mat) from outside this file.
DRW_deferred_shader_remove(mat) ==
  /\ mpc = "idle"
  /\ Remove_Body([NoCall EXCEPT !.fn = "remove", !.mat = mat])
  /\ batch' = "void"
  /\ UNCHANGED <<status, job, use_main_context, ctx_live, wpc, w_total, w_ctx,
                 main_lock, n_compile, n_dispose>>
  /\ UNCHANGED libvars
  /\ UNCHANGED <<submit_order, compile_order>>

\* Line 207: the call of DRW_deferred_shader_remove(mat) by
\* drw_deferred_shader_add.
Add_Remove ==
  /\ mpc = "remove"
  /\ Remove_Body(m_call)
  /\ UNCHANGED <<status, job, use_main_context, ctx_live, wpc, w_total, w_ctx,
                 main_lock, n_compile, batch, n_dispose>>
  /\ UNCHANGED libvars
  /\ UNCHANGED <<submit_order, compile_order>>

\* Lines 303-315: BLI_mutex_lock and BLI_mutex_unlock of compilation_lock,
\* BLI_spin_unlock of list_lock, the unlinked request is freed, remove returns.
Remove_Wait ==
  /\ mpc = "remove_wait"
  /\ comp[m_comp].compilation_lock = "free"
  /\ comp' = [comp EXCEPT ![m_comp].list_lock = "free"]
  /\ m_call' = [m_call EXCEPT !.waited = TRUE]
  /\ mpc' = Remove_ReturnTo(m_call)
  /\ m_comp' = NULL
  /\ removed' = removed \cup {m_call.mat}
  /\ dsh_live' = IF m_call.dsh THEN [dsh_live EXCEPT ![m_call.mat] = @ - 1]
                  ELSE dsh_live
  /\ UNCHANGED <<status, job, use_main_context, ctx_live, wpc, w_total, w_ctx,
                 main_lock, n_compile, unlinked, batch, n_dispose>>
  /\ UNCHANGED libvars
  /\ UNCHANGED <<submit_order, compile_order>>

\* Line 208: GPU_material_compile(mat) on the calling thread is entered ...
Add_CompileCall ==
  /\ mpc = "compile"
  /\ n_compile' = [n_compile EXCEPT ![m_call.mat] = @ + 1]
  /\ mpc' = "compiling"
  /\ UNCHANGED <<status, comp, job, use_main_context, ctx_live, wpc, w_total,
                 w_ctx, main_lock, m_call, m_comp, unlinked, batch>>
  /\ UNCHANGED <<dsh_live, n_dispose>>
  /\ UNCHANGED libvars
  /\ UNCHANGED <<submit_order, compile_order, removed>>

\* ... and returns; drw_deferred_shader_add returns (line 209).
Add_CompileReturn ==
  /\ mpc = "compiling"
  /\ \E ok \in BOOLEAN : status' = GPU_material_compile(status, m_call.mat, ok)
  /\ mpc' = IF m_call.stage = "first" THEN "force_check" ELSE "return"
  /\ UNCHANGED m_call
  /\ UNCHANGED <<comp, job, use_main_context, ctx_live, wpc, w_total, w_ctx,
                 main_lock, m_comp, n_compile, unlinked, batch>>
  /\ UNCHANGED <<dsh_live, n_dispose>>
  /\ UNCHANGED libvars
  /\ UNCHANGED <<submit_order, compile_order, removed>>

\* Add_PassOwnership without line 244: the old instance stays an owner.
Add_PassOwnership_Keeps(own_context) == own_context

\* Line 244: old_comp->own_context = false, "just pass ownership".
Add_PassOwnership(own_context) == FALSE

\* Add_MovedFrom of a copy: the old instance keeps its requests.
Add_MovedFrom_Copies(old_queue) == old_queue

\* Line 238: BLI_movelisttolist leaves the source list, old_comp->queue, empty.
Add_MovedFrom(old_queue) == <<>>

\* Add_MigrateQueue with BLI_addhead at line 249: the new request comes first.
Add_MigrateQueue_AtHead(old_queue, mat) == <<mat>> \o old_queue

\* Add_MigrateQueue without line 238: the old queue is not taken over.
Add_MigrateQueue_Drops(old_queue, mat) == <<mat>>

\* Lines 238 and 249: BLI_movelisttolist(&comp->queue, &old_comp->queue), then
\* BLI_addtail(&comp->queue, dsh).
Add_MigrateQueue(old_queue, mat) == Append(old_queue, mat)

\* WM_jobs_customdata_set(wm_job, comp, free), WM_jobs_delay_start and
\* WM_jobs_start (lines 268-275): the new custom data is pending; a running
\* worker is told to stop.  Freeing the custom data it replaces is done by
\* the caller (Add_Deferred).
WM_jobs_customdata_set(j, c) ==
  [j EXCEPT !.customdata = c, !.stop = IF j.running THEN TRUE ELSE @]

WM_jobs_delay_start(j) == [j EXCEPT !.start_delay = TRUE]

\* Add_JobOwnContext that makes the job own its context in every case.
Add_JobOwnContext_Always(use_main) == TRUE

\* Line 212: job_own_context = !use_main_context.
Add_JobOwnContext(use_main) == ~use_main

\* Lines 211-276, the deferred path of drw_deferred_shader_add: a new instance
\* takes over the queue (under old_comp->list_lock) and the context of the
\* job's custom data, gets the new request at its tail, creates a context if
\* it has none and becomes the job's pending custom data; the pending custom
\* data it replaces is freed by WM_jobs_customdata_set.
Add_Deferred ==
  /\ mpc = "add_deferred"
  /\ LET mat == m_call.mat
         old_comp == WM_jobs_customdata_get(job)
         c == AllocComp
         job_own_context == Add_JobOwnContext(use_main_context)
         old_queue == IF old_comp # NULL THEN comp[old_comp].queue ELSE <<>>
         old_ctx == IF old_comp # NULL THEN comp[old_comp].gl_context ELSE NULL
         new_ctx == IF old_ctx # NULL THEN old_ctx
                    ELSE IF use_main_context THEN DST_gl_context
                    ELSE WM_opengl_context_create(c)
         comp1 == IF old_comp = NULL THEN comp
                  ELSE [comp EXCEPT ![old_comp].queue = Add_MovedFrom(@),
                                    ![old_comp].own_context =
                                        IF old_ctx # NULL
                                        THEN Add_PassOwnership(@) ELSE @]
         comp2 == [comp1 EXCEPT ![c] =
                     [NewComp EXCEPT !.queue = Add_MigrateQueue(old_queue, mat),
                                     !.gl_context = new_ctx,
                                     !.own_context = job_own_context]]
         ctx1 == IF old_ctx = NULL /\ ~use_main_context
                 THEN ctx_live \cup {new_ctx} ELSE ctx_live
         S1 == [comp |-> comp2, status |-> status, n_compile |-> n_compile,
                ctx_live |-> ctx1,
                dsh_live |-> [dsh_live EXCEPT ![mat] = @ + 1],
                n_dispose |-> n_dispose]
         pending == job.customdata
     IN /\ old_comp # NULL => comp[old_comp].list_lock = "free"
        /\ \E oks \in [IF pending # NULL THEN ListSet(comp[pending].queue_conclude)
                       ELSE {} -> BOOLEAN] :
             LET S2 == IF pending # NULL
                       THEN drw_deferred_shader_compilation_free(S1, pending, oks)
                       ELSE S1
             IN /\ comp' = S2.comp
                /\ status' = S2.status
                /\ n_compile' = S2.n_compile
                /\ ctx_live' = S2.ctx_live
                /\ dsh_live' = S2.dsh_live
                /\ n_dispose' = S2.n_dispose
        /\ job' = WM_jobs_start(WM_jobs_delay_start(WM_jobs_customdata_set(job, c)))
  /\ submit_order' = Append(submit_order, m_call.mat)
  /\ batch' = IF batch = "draining" THEN "void" ELSE batch
  /\ mpc' = "force_check"
  /\ UNCHANGED <<use_main_context, wpc, w_total, w_ctx, main_lock, m_call, m_comp,
                 unlinked, compile_order>>
  /\ removed' = removed \ {m_call.mat}
  /\ UNCHANGED libvars

\* wm_jobs_timer has something to do for the job: its worker has ended, or it
\* is suspended and can be started.
Timer_Ended(j) == j.running /\ j.ready
Timer_Suspended(j) == ~j.running /\ j.suspended

\* wm_jobs_timer, job ended: run_free(run_customdata), that is
\* drw_deferred_shader_compilation_free; then the job restarts with the
\* pending custom data, or is removed.
wm_jobs_timer_end ==
  /\ mpc = "idle"
  /\ Timer_Ended(job)
  /\ \E oks \in [ListSet(comp[job.run_customdata].queue_conclude) -> BOOLEAN] :
       LET S == drw_deferred_shader_compilation_free(Memory, job.run_customdata, oks)
       IN /\ comp' = S.comp
          /\ status' = S.status
          /\ n_compile' = S.n_compile
          /\ ctx_live' = S.ctx_live
          /\ dsh_live' = S.dsh_live
          /\ n_dispose' = S.n_dispose
  /\ LET j1 == [job EXCEPT !.run_customdata = NULL, !.running = FALSE]
     IN job' = IF j1.customdata # NULL THEN WM_jobs_start(j1) ELSE NoJob
  /\ wpc' = IF Spawned(job, job') THEN "begin" ELSE wpc
  /\ UNCHANGED <<use_main_context, w_total, w_ctx, main_lock, mpc, m_call, m_comp,
                 unlinked, batch>>
  /\ UNCHANGED libvars
  /\ UNCHANGED <<submit_order, compile_order, removed>>

\* wm_jobs_timer, job suspended: WM_jobs_start.
wm_jobs_timer_start ==
  /\ mpc = "idle"
  /\ Timer_Suspended(job)
  /\ job' = WM_jobs_start(job)
  /\ wpc' = IF Spawned(job, job') THEN "begin" ELSE wpc
  /\ UNCHANGED <<status, comp, use_main_context, ctx_live, w_total, w_ctx,
                 main_lock, mpc, m_call, m_comp, n_compile, unlinked, batch>>
  /\ UNCHANGED <<dsh_live, n_dispose>>
  /\ UNCHANGED libvars
  /\ UNCHANGED <<submit_order, compile_order, removed>>

\* WM_jobs_kill_type(wm, scene, ...) ("wm can kill the task if we are closing
\* blender", line 116): the worker is told to stop and joined ...
WM_jobs_kill ==
  /\ mpc = "idle"
  /\ WM_jobs_test(job)
  /\ job' = [job EXCEPT !.stop = IF job.running THEN TRUE ELSE @]
  /\ mpc' = "kill_join"
  /\ m_call' = [NoCall EXCEPT !.fn = "kill"]
  /\ batch' = "void"
  /\ UNCHANGED <<status, comp, use_main_context, ctx_live, wpc, w_total, w_ctx,
                 main_lock, m_comp, n_compile, unlinked>>
  /\ UNCHANGED <<dsh_live, n_dispose>>
  /\ UNCHANGED libvars
  /\ UNCHANGED <<submit_order, compile_order, removed>>

\* ... then the pending and the running custom data are freed and the job is
\* removed.
WM_jobs_kill_free ==
  /\ mpc = "kill_join"
  /\ wpc = "none"
  /\ LET pending == job.customdata
         run == job.run_customdata
         lists == (IF pending # NULL THEN ListSet(comp[pending].queue_conclude) ELSE {})
                  \cup (IF run # NULL THEN ListSet(comp[run].queue_conclude) ELSE {})
     IN \E oks \in [lists -> BOOLEAN] :
          LET S1 == IF pending # NULL
                    THEN drw_deferred_shader_compilation_free(Memory, pending, oks)
                    ELSE Memory
              S2 == IF run # NULL
                    THEN drw_deferred_shader_compilation_free(S1, run, oks)
                    ELSE S1
          IN /\ comp' = S2.comp
             /\ status' = S2.status
             /\ n_compile' = S2.n_compile
             /\ ctx_live' = S2.ctx_live
             /\ dsh_live' = S2.dsh_live
             /\ n_dispose' = S2.n_dispose
  /\ job' = NoJob
  /\ mpc' = "return"
  /\ UNCHANGED <<use_main_context, wpc, w_total, w_ctx, main_lock, m_call, m_comp,
                 unlinked, batch>>
  /\ UNCHANGED libvars
  /\ UNCHANGED <<submit_order, compile_order, removed>>

\* ------------------------------------------------------------ shader library

Slots == 0..(MAX_LIB - 1)

Names == {NameList[k] : k \in 1..Len(NameList)}

\* The names of the set T of positions of NameList, in the order of NameList.
RECURSIVE NamesOf(_, _)
NamesOf(T, k) ==
  IF k > Len(NameList) THEN <<>>
  ELSE (IF k \in T THEN <<NameList[k]>> ELSE <<>>) \o NamesOf(T, k + 1)

\* What a source text is to the library: the names in its
\* "BLENDER_REQUIRE(name)" directives, in text order.
Requires ==
  {NamesOf(T, 1) : T \in {U \in SUBSET (1..Len(NameList)) : Cardinality(U) <= MaxReq}}

\* A source text: the file it is the content of (<<>> for shader code that is
\* no library file) and its directives.
Source(file, req) == [null |-> FALSE, file |-> file, req |-> req]

\* The const char * that is NULL.
NullSource == [null |-> TRUE, file |-> <<>>, req |-> <<>>]

\* uint64_t bitmaps: 1llu << i, deps & (1llu << i), deps | more.
Bit(i) == 2 ^ i
HasBit(deps, i) == (deps \div Bit(i)) % 2 = 1

RECURSIVE BitOrFrom(_, _, _)
BitOrFrom(deps, more, i) ==
  IF i >= MAX_LIB THEN 0
  ELSE (IF HasBit(deps, i) \/ HasBit(more, i) THEN Bit(i) ELSE 0) +
       BitOrFrom(deps, more, i + 1)

BitOr(deps, more) == BitOrFrom(deps, more, 0)

\* The library as the functions take it (const DRWShaderLibrary *lib).
Lib == [libs |-> libs, libs_name |-> libs_name, libs_deps |-> libs_deps]

\* !strncmp(a, b, strlen(a)): a is a prefix of b.
IsPrefix(a, b) == Len(a) <= Len(b) /\ SubSeq(b, 1, Len(a)) = a

\* BLI_strncpy(dst, src, maxncpy): at most maxncpy - 1 characters are copied.
BLI_strncpy(src, maxncpy) ==
  IF Len(src) < maxncpy THEN src ELSE SubSeq(src, 1, maxncpy - 1)

\* drw_shader_library_search(lib, name), lines 538-551, from slot i on: the
\* first registered slot whose name is a prefix of the text at 'name'; -1 at
\* the first empty slot or after the last slot.
RECURSIVE SearchFrom(_, _, _)
SearchFrom(lib, name, i) ==
  IF i >= MAX_LIB THEN -1
  ELSE IF lib.libs[i].null THEN -1
  ELSE IF IsPrefix(lib.libs_name[i], name) THEN i
  ELSE SearchFrom(lib, name, i + 1)

drw_shader_library_search(lib, name) == SearchFrom(lib, name, 0)

\* The text that follows "BLENDER_REQUIRE(" in a directive naming 'name'.
Haystack(name) == name \o <<CloseParen>>

\* drw_shader_dependencies_get(lib, "BLENDER_REQUIRE(", lib_code), lines
\* 554-587, from the k-th directive of the text on: the bit of every directive
\* the search finds; a directive it does not find is logged and adds nothing.
RECURSIVE DependenciesFrom(_, _, _, _)
DependenciesFrom(lib, req, k, deps) ==
  IF k > Len(req) THEN deps
  ELSE LET dep == drw_shader_library_search(lib, Haystack(req[k]))
       IN DependenciesFrom(lib, req, k + 1,
                           IF dep = -1 THEN deps ELSE BitOr(deps, Bit(dep)))

drw_shader_dependencies_get(lib, lib_code) ==
  DependenciesFrom(lib, lib_code.req, 1, 0)

\* Lines 591-597: the first empty slot, -1 if there is none.
FreeIndex(lib) ==
  IF \E i \in Slots : lib.libs[i].null
  THEN CHOOSE i \in Slots : lib.libs[i].null /\ \A j \in Slots : j < i => ~lib.libs[j].null
  ELSE -1

\* DRW_shader_library_add_file(lib, lib_code, lib_name), lines 589-609: the
\* source and the name are stored in the first empty slot, then the
\* dependencies are computed on the library that holds them already.
Lib_add_file(lib, lib_code, lib_name) ==
  LET index == FreeIndex(lib)
      stored == [lib EXCEPT !.libs[index] = lib_code,
                            !.libs_name[index] = BLI_strncpy(lib_name, MAX_LIB_NAME)]
  IN IF index > -1
     THEN [stored EXCEPT !.libs_deps[index] = drw_shader_dependencies_get(stored, lib_code)]
     ELSE lib

\* Lib_DepsOf that resolves the directives of slot i anew instead of reading
\* the dependencies stored at registration.
Lib_DepsOf_Resolved(lib, i) == drw_shader_dependencies_get(lib, lib.libs[i])

\* Line 619: the dependencies of slot i that the recursive pass adds.
Lib_DepsOf(lib, i) == lib.libs_deps[i]

\* Lines 617-621, "Add all dependencies recursively", from slot i down to 0.
RECURSIVE Lib_AddDependencies(_, _, _)
Lib_AddDependencies(lib, deps, i) ==
  IF i < 0 THEN deps
  ELSE Lib_AddDependencies(lib,
         IF ~lib.libs[i].null /\ HasBit(deps, i)
         THEN BitOr(deps, Lib_DepsOf(lib, i)) ELSE deps,
         i - 1)

\* The pass of lines 617-621 run from slot i up to MAX_LIB - 1 instead.
RECURSIVE Lib_AddDependenciesUp(_, _, _)
Lib_AddDependenciesUp(lib, deps, i) ==
  IF i >= MAX_LIB THEN deps
  ELSE Lib_AddDependenciesUp(lib,
         IF ~lib.libs[i].null /\ HasBit(deps, i)
         THEN BitOr(deps, Lib_DepsOf(lib, i)) ELSE deps,
         i + 1)

Lib_RecursivePass_Forward(lib, deps) == Lib_AddDependenciesUp(lib, deps, 0)

\* Lines 617-621: the pass starts at slot MAX_LIB - 1.
Lib_RecursivePass(lib, deps) == Lib_AddDependencies(lib, deps, MAX_LIB - 1)

\* Lines 623-627, "Concatenate all needed libs into one string", from slot i
\* on, deps being shifted right i times already.
RECURSIVE Lib_Concatenate(_, _, _)
Lib_Concatenate(lib, deps, i) ==
  IF i >= MAX_LIB \/ deps = 0 THEN <<>>
  ELSE (IF deps % 2 = 1 THEN <<lib.libs[i]>> ELSE <<>>) \o
       Lib_Concatenate(lib, deps \div 2, i + 1)

\* BLI_assert(a), lines 99-104, 218 and 607: whether the process is aborted.
\* A build with assertions that abort ends the process on a failed assertion;
\* a release build compiles the assertion away.
BLI_assert_aborts(a, with_assert_abort) == ~a /\ with_assert_abort

\* The process was ended by the assertion of line 607.
Lib_Aborted == lib_op = "abort"

\* A call of DRW_shader_library_add_file from outside; the file's content is
\* registered under the file's name (DRW_SHADER_LIB_ADD).  With no empty slot
\* the error is printed and BLI_assert(0) is reached (lines 605-608).
DRW_shader_library_add_file(lib_name, req) ==
  /\ ~Lib_Aborted
  /\ LET r == Lib_add_file(Lib, Source(lib_name, req), lib_name)
     IN /\ libs' = r.libs
        /\ libs_name' = r.libs_name
        /\ libs_deps' = r.libs_deps
  /\ \E with_assert_abort \in BOOLEAN :
       lib_op' = IF FreeIndex(Lib) > -1 THEN "add_file"
                 ELSE IF BLI_assert_aborts(FALSE, with_assert_abort) THEN "abort"
                 ELSE "add_file_full"
  /\ shader_code' = NullSource
  /\ shader_deps' = 0
  /\ shader_string' = <<>>
  /\ UNCHANGED compvars

\* DRW_shader_library_create_shader_string(lib, shader_code), lines 611-635.
DRW_shader_library_create_shader_string(req) ==
  /\ ~Lib_Aborted
  /\ LET code == Source(<<>>, req)
         deps == Lib_RecursivePass(Lib, drw_shader_dependencies_get(Lib, code))
     IN /\ shader_code' = code
        /\ shader_deps' = deps
        /\ shader_string' = Lib_Concatenate(Lib, deps, 0) \o <<code>>
  /\ lib_op' = "create_shader_string"
  /\ UNCHANGED <<libs, libs_name, libs_deps>>
  /\ UNCHANGED compvars

\* ------------------------------------------------------------ specification

CompInit ==
  /\ status = [m \in Mats |-> GPU_MAT_CREATED]
  /\ comp = [c \in Comps |-> NoComp("unalloc")]
  /\ job = NoJob
  /\ use_main_context \in BOOLEAN
  /\ ctx_live = {}
  /\ wpc = "none"
  /\ w_total = 0
  /\ w_ctx = NULL
  /\ main_lock = "free"
  /\ mpc = "idle"
  /\ m_call = NoCall
  /\ m_comp = NULL
  /\ n_compile = [m \in Mats |-> 0]
  /\ unlinked = {}
  /\ removed = {}
  /\ batch = "open"
  /\ dsh_live = [m \in Mats |-> 0]
  /\ n_dispose = [x \in Contexts |-> 0]
  /\ submit_order = <<>>
  /\ compile_order = <<>>

LibInit ==
  /\ libs = [i \in Slots |-> NullSource]
  /\ libs_name = [i \in Slots |-> <<>>]
  /\ libs_deps = [i \in Slots |-> 0]
  /\ lib_op = "none"
  /\ shader_code = NullSource
  /\ shader_deps = 0
  /\ shader_string = <<>>

Init == CompInit /\ LibInit

Next ==
  \/ \E mat \in Mats, deferred \in BOOLEAN, image_render \in BOOLEAN, evil_C \in BOOLEAN :
       DRW_shader_from_material(mat, deferred, image_render, evil_C)
  \/ \E mat \in Mats, deferred \in BOOLEAN, image_render \in BOOLEAN, evil_C \in BOOLEAN :
       DRW_shader_from_world(mat, deferred, image_render, evil_C)
  \/ From_ForceCheck
  \/ Return
  \/ \E mat \in Mats : DRW_deferred_shader_remove(mat)
  \/ Add_Remove
  \/ Remove_Wait
  \/ Add_CompileCall
  \/ Add_CompileReturn
  \/ Add_Deferred
  \/ wm_jobs_timer_end
  \/ wm_jobs_timer_start
  \/ WM_jobs_kill
  \/ WM_jobs_kill_free
  \/ Exec_Begin
  \/ Exec_SpinLock
  \/ Exec_Pop
  \/ Exec_Mutex
  \/ Exec_CompileCall
  \/ Exec_CompileReturn
  \/ Exec_Unlock
  \/ Exec_SpinRelock
  \/ Exec_Conclude
  \/ Exec_End

Spec == Init /\ [][Next]_vars

\* The steps of the job's worker thread.
WorkerNext ==
  \/ Exec_Begin
  \/ Exec_SpinLock
  \/ Exec_Pop
  \/ Exec_Mutex
  \/ Exec_CompileCall
  \/ Exec_CompileReturn
  \/ Exec_Unlock
  \/ Exec_SpinRelock
  \/ Exec_Conclude
  \/ Exec_End

\* Spec with the scheduling the threads have: the worker thread keeps running
\* (every GPU_material_compile call returns, a lock that stays free is taken),
\* and the main thread inside DRW_deferred_shader_remove takes a lock that
\* stays free.  Nothing is assumed of when the main thread calls a function.
FairSpec ==
  /\ Init /\ [][Next]_vars
  /\ WF_vars(WorkerNext)
  /\ WF_vars(Add_Remove)
  /\ WF_vars(Remove_Wait)

LibNext ==
  \/ \E lib_name \in Names, req \in Requires :
       DRW_shader_library_add_file(lib_name, req)
  \/ \E req \in Requires : DRW_shader_library_create_shader_string(req)

\* The library functions read and write nothing of the compiler's state: one
\* initial state of the compiler suffices.
LibSpecInit == Init /\ ~use_main_context

LibSpec == LibSpecInit /\ [][LibNext]_vars


\* ------------------------------------------------------------ vocabulary

\* The instances that are allocated and not freed.
LiveComps == {c \in Comps : comp[c].mem = "live"}

\* The worker thread is between its pop of mat's request and its release of
\* compilation_lock for it (lines 123-145): GPU_material_compile(mat) is
\* ahead of it or running, or has returned with the lock still held.
WorkerCompiles(mat) ==
  /\ wpc \in {"mutex", "compile", "compiling", "flush"}
  /\ comp[RunComp].mat_compiling = mat

\* The worker thread is inside GPU_material_compile(mat) (line 137).
WorkerInsideCompile(mat) ==
  wpc = "compiling" /\ comp[RunComp].mat_compiling = mat

\* The worker thread still has an access to mat ahead of it: the compile
\* (line 137) or the read of its status (line 148).
WorkerWillAccess(mat) ==
  /\ wpc \in {"mutex", "compile", "compiling", "flush", "relock", "conclude"}
  /\ comp[RunComp].mat_compiling = mat

\* DRW_deferred_shader_remove(m_call.mat) has just returned, to its caller
\* outside or to drw_deferred_shader_add (line 208).
RemoveReturned ==
  \/ mpc = "return" /\ m_call.fn = "remove"
  \/ mpc = "compile"

\* The units that have a request in a queue, a conclude list or a
\* mat_compiling slot of a live instance.
Requested ==
  UNION {ListSet(comp[c].queue) \cup ListSet(comp[c].queue_conclude) \cup
         (IF comp[c].mat_compiling # NULL THEN {comp[c].mat_compiling} ELSE {})
         : c \in LiveComps}

\* ------------------------------------------------------------------ claims

\* The wait of lines 302-305 for the instance remove examines: when remove
\* finds mat_compiling->mat == mat under list_lock, the worker of that
\* instance holds compilation_lock for that compile or has released it, and
\* a remove that waited returns only after the release.
Remove_WaitProtocol ==
  /\ mpc = "remove_wait" =>
       /\ job.running /\ m_comp = RunComp
       /\ comp[m_comp].mat_compiling = m_call.mat
       /\ wpc \in {"compile", "compiling", "flush", "relock"}
       /\ wpc \in {"compile", "compiling", "flush"} =>
            comp[m_comp].compilation_lock = "worker"
  /\ (RemoveReturned /\ m_call.waited) => ~WorkerCompiles(m_call.mat)

\* C1: DRW_deferred_shader_remove(unit) never returns while the worker is
\* inside GPU_material_compile for unit, and when it observes
\* mat_compiling->mat == unit under list_lock the worker has acquired
\* compilation_lock for that compile (or has already released it).
C1_RemoveWaitsForCompile ==
  [][/\ (mpc \in {"idle", "remove", "remove_wait"} /\ RemoveReturned') =>
          ~WorkerInsideCompile(m_call'.mat)
     /\ mpc' = "remove_wait" =>
          /\ comp'[m_comp'].mat_compiling = m_call'.mat
          /\ wpc' \in {"compile", "compiling", "flush", "relock"}]_vars

\* C1, the case where the wait works: remove found the worker compiling the
\* unit, waited and has returned; the worker is past its release of
\* compilation_lock and has not yet re-acquired list_lock.
C1_Witness ==
  /\ mpc = "return" /\ m_call.fn = "remove" /\ m_call.waited
  /\ wpc = "relock" /\ comp[RunComp].mat_compiling = m_call.mat

\* C2: once DRW_deferred_shader_remove(unit) has returned, the worker has no
\* access to unit ahead of it, neither the compile nor the read of its status.
C2_NoAccessAfterRemove ==
  RemoveReturned => ~WorkerWillAccess(m_call.mat)

\* C2, the interleaving the claim names: remove waited for the compile, the
\* worker released compilation_lock, remove returned, and the worker has the
\* read of the unit's status (line 148) ahead of it.
C2_RaceReached ==
  /\ mpc = "return" /\ m_call.fn = "remove" /\ m_call.waited
  /\ wpc = "conclude" /\ comp[RunComp].mat_compiling = m_call.mat

\* C3: if only deferred submissions were made, all before the worker's first
\* pop, then once the job has finished and is torn down GPU_material_compile
\* has been invoked exactly once for each submitted unit and for no other.
C3_OneCompilePerSubmission ==
  (batch \in {"open", "draining"} /\ job = NoJob /\ mpc = "idle") =>
     \A m \in Mats : n_compile[m] = IF status[m] = GPU_MAT_CREATED THEN 0 ELSE 1

\* C3 witness: every unit was submitted deferred before the first pop (each
\* submission after the first took over the previous instance's queue), the
\* job has finished and is torn down, and each unit was compiled once.
C3_Witness ==
  /\ batch = "draining" /\ job = NoJob /\ mpc = "idle"
  /\ \A m \in Mats : status[m] \in {GPU_MAT_SUCCESS, GPU_MAT_FAILED} /\ n_compile[m] = 1
  /\ \A c \in Comps : comp[c].mem = "freed"

\* C4: a unit whose request DRW_deferred_shader_remove unlinked from a queue is
\* never compiled by the worker or by teardown: the only step that invokes
\* GPU_material_compile on it is the calling thread's own (line 208).
C4_UnlinkedNeverCompiled ==
  [][\A m \in Mats :
       (m \in unlinked' /\ n_compile'[m] # n_compile[m]) =>
          (mpc = "compile" /\ m_call.mat = m)]_vars

\* C4 witness: a request was unlinked by a remove from outside, the job has
\* finished and is torn down, and the unit was never compiled.
C4_Witness ==
  \E m \in unlinked :
     /\ n_compile[m] = 0 /\ status[m] = GPU_MAT_QUEUED
     /\ job = NoJob /\ mpc = "idle"
     /\ \E o \in Mats : o # m /\ n_compile[o] = 1

\* GPU_material_compile(m) returns in this step: on the worker (line 137), on
\* the calling thread (line 208), or within a teardown (line 177).
CompileReturns(m) ==
  \/ wpc = "compiling" /\ wpc' = "flush" /\ comp[RunComp].mat_compiling = m
  \/ mpc = "compiling" /\ mpc' # "compiling" /\ m_call.mat = m
  \/ \E c \in LiveComps : InList(comp[c].queue_conclude, m) /\ comp'[c].mem = "freed"

C6_MaterialImageRender ==
  (mpc = "return" /\ m_call.fn = "material" /\ m_call.image_render) =>
     /\ status[m_call.mat] \in {GPU_MAT_SUCCESS, GPU_MAT_FAILED}
     /\ \A c \in LiveComps : ~InList(comp[c].queue, m_call.mat)

\* C6 witness: DRW_shader_from_material was called with deferred = true in
\* image-render mode for a unit QUEUED by an earlier deferred request; it
\* unlinked the request, compiled the unit itself and has returned.
C6_Witness ==
  /\ mpc = "return" /\ m_call.fn = "material" /\ m_call.image_render
  /\ m_call.arg_deferred /\ m_call.stage = "forced" /\ m_call.dsh
  /\ n_compile[m_call.mat] = 1

\* C7: when DRW_shader_from_world returns in image-render mode, for either
\* value of deferred, the unit's status is SUCCESS or FAILED.
C7_WorldImageRender ==
  (mpc = "return" /\ m_call.fn = "world" /\ m_call.image_render) =>
     status[m_call.mat] \in {GPU_MAT_SUCCESS, GPU_MAT_FAILED}

\* ------------------------------------------------- vocabulary, the library

\* The slots that hold a fragment.
Registered == {i \in Slots : ~libs[i].null}

\* The slots whose bit is set in a bitmap.
BitsOf(deps) == {i \in Slots : HasBit(deps, i)}

\* The names a source text requires.
ReqSet(src) == {src.req[k] : k \in 1..Len(src.req)}

\* The fragment registered under exactly this name (the first, if several),
\* -1 if there is none.
ExactIndex(name) ==
  IF \E i \in Registered : libs_name[i] = name
  THEN CHOOSE i \in Registered :
         libs_name[i] = name /\ \A j \in Registered : libs_name[j] = name => i <= j
  ELSE -1

\* The fragments a source text requires, by the names in its directives.
RequiredBy(src) == {ExactIndex(n) : n \in ReqSet(src)} \ {-1}

\* Every fragment was registered after all the fragments it requires.
RegisteredInOrder ==
  \A i \in Registered : \A n \in ReqSet(libs[i]) : ExactIndex(n) \in 0..(i - 1)

\* The fragments required by those of S, directly or not.
RECURSIVE RequiredClosure(_)
RequiredClosure(S) ==
  LET T == S \cup UNION {RequiredBy(libs[i]) : i \in S}
  IN IF T = S THEN S ELSE RequiredClosure(T)

\* The sources of the fragments of S in ascending index order, from slot i on.
RECURSIVE SourcesOf(_, _)
SourcesOf(S, i) ==
  IF i >= MAX_LIB THEN <<>>
  ELSE (IF i \in S THEN <<libs[i]>> ELSE <<>>) \o SourcesOf(S, i + 1)

\* The closure of S under the stored relation: j is a dependency of i when
\* bit j of libs_deps[i] is set.
RECURSIVE StoredClosure(_)
StoredClosure(S) ==
  LET T == S \cup {j \in Slots : \E i \in S : HasBit(libs_deps[i], j)}
  IN IF T = S THEN S ELSE StoredClosure(T)

\* The fragment the library's search finds for a directive naming 'name' now.
LookupIndex(name) == drw_shader_library_search(Lib, Haystack(name))

\* The fragments the directives of a source text resolve to now.
ResolvedBy(src) == {LookupIndex(n) : n \in ReqSet(src)} \ {-1}

\* The fragments reached from those of S along the directives of their
\* sources, as resolved now, on paths that do not go through fragment b.
RECURSIVE ReachAvoiding(_, _)
ReachAvoiding(S, b) ==
  LET T == (S \cup UNION {ResolvedBy(libs[i]) : i \in S}) \ {b}
  IN IF T = S THEN S ELSE ReachAvoiding(T, b)

\* Every directive, in the library and in the expanded code, is resolved to the
\* fragment of exactly that name.
LookupIsExact == \A n \in Names : LookupIndex(n) = ExactIndex(n)

\* The result of an expansion of a library registered in order, where the
\* library's search resolves every name exactly.
Expand_OfExactLookup ==
  (lib_op = "create_shader_string" /\ RegisteredInOrder /\ LookupIsExact) =>
     shader_string =
       SourcesOf(RequiredClosure(RequiredBy(shader_code)), 0) \o <<shader_code>>

\* C8: if every fragment was registered after all fragments it requires,
\* DRW_shader_library_create_shader_string returns the source of each fragment
\* the code requires, directly or not, exactly once, in ascending index order,
\* followed by the code.  (Stated for code that names registered fragments.)
C8_ExpandOfOrderedLibrary ==
  (/\ lib_op = "create_shader_string" /\ RegisteredInOrder
   /\ \A n \in ReqSet(shader_code) : ExactIndex(n) # -1) =>
     shader_string =
       SourcesOf(RequiredClosure(RequiredBy(shader_code)), 0) \o <<shader_code>>

\* C8, the case of a fragment required by several dependents: A, then B and C
\* that both require A, then code that requires B and C; A appears once.
C8_Diamond ==
  /\ lib_op = "create_shader_string" /\ RegisteredInOrder /\ LookupIsExact
  /\ Registered = {0, 1, 2}
  /\ RequiredBy(libs[1]) = {0} /\ RequiredBy(libs[2]) = {0}
  /\ RequiredBy(shader_code) = {1, 2}
  /\ shader_string = <<libs[0], libs[1], libs[2], shader_code>>

\* C9: the fragments DRW_shader_library_create_shader_string includes are
\* exactly the closure, under the stored libs_deps, of the direct dependencies
\* of the code: the pass from slot MAX_LIB - 1 down to 0 reaches every
\* indirect dependency and adds nothing else.
C9_IncludedIsStoredClosure ==
  lib_op = "create_shader_string" =>
     LET direct == BitsOf(drw_shader_dependencies_get(Lib, shader_code))
     IN /\ BitsOf(shader_deps) = StoredClosure(direct)
        /\ shader_string = SourcesOf(StoredClosure(direct), 0) \o <<shader_code>>

\* C9 witness: nesting depth two.  Fragment 1 depends on fragment 0, fragment 2
\* on fragment 1; code that requires only fragment 2 yields 0, 1, 2, code.
C9_Witness ==
  /\ lib_op = "create_shader_string"
  /\ BitsOf(drw_shader_dependencies_get(Lib, shader_code)) = {2}
  /\ BitsOf(libs_deps[2]) = {1} /\ BitsOf(libs_deps[1]) = {0}
  /\ BitsOf(libs_deps[0]) = {}
  /\ shader_string = <<libs[0], libs[1], libs[2], shader_code>>

\* Fragment b was registered while the name n in its source was not yet
\* registered, and fragment a is the fragment of that name, registered later.
ForwardReference(b, a) ==
  /\ b \in Registered /\ a \in Registered /\ b < a
  /\ \E n \in ReqSet(libs[b]) : ExactIndex(n) = a \/ LookupIndex(n) = a

\* C10: if B was registered while a name A that its source requires was not
\* yet registered, B has no dependency bit for A; and once A is registered,
\* code that reaches A only through B is expanded without A's text.
C10_ForwardReferenceNotIncluded ==
  \A b \in Slots, a \in Slots :
     ForwardReference(b, a) =>
        /\ ~HasBit(libs_deps[b], a)
        /\ (lib_op = "create_shader_string" /\
            a \notin ReachAvoiding(ResolvedBy(shader_code) \ {b}, b)) =>
              /\ ~HasBit(shader_deps, a)
              /\ (\A j \in Registered : j # a => libs[j] # libs[a]) =>
                   \A k \in 1..Len(shader_string) : shader_string[k] # libs[a]

\* C10 witness: B (slot 0) requires A by name and was registered first, A is in
\* slot 1; code that requires only B is expanded to B, code.
C10_Witness ==
  /\ lib_op = "create_shader_string"
  /\ ForwardReference(0, 1) /\ ExactIndex(libs_name[1]) = 1
  /\ libs_name[1] \in ReqSet(libs[0])
  /\ ResolvedBy(shader_code) = {0}
  /\ shader_string = <<libs[0], shader_code>>

\* C11: a fragment whose source names a dependency that is not registered is
\* not registered: a slot is filled only by a source all of whose required
\* names were registered before the call.
C11_ForwardReferenceSkipsRegistration ==
  [][\A i \in Slots :
       (libs[i].null /\ ~libs'[i].null) =>
          \A n \in ReqSet(libs'[i]) : ExactIndex(n) # -1]_vars

\* C11, what the program does instead: the only fragment of the library
\* requires "b", which was never registered; it holds slot 0 with no
\* dependency bit and is found by a lookup of its name.
C11_RegisteredAnyway ==
  /\ lib_op = "add_file" /\ Registered = {0}
  /\ libs_name[0] = <<1>> /\ ReqSet(libs[0]) = {<<2>>}
  /\ libs_deps[0] = 0 /\ LookupIndex(<<1>>) = 0

\* A call of DRW_shader_library_add_file on a library without an empty slot
\* leaves libs, libs_name and libs_deps as they are, whether or not the
\* assertion ends the process.
AddFile_FullKeepsRegistry ==
  [][(Registered = Slots /\ lib_op' \in {"add_file", "add_file_full", "abort"}) =>
       (libs' = libs /\ libs_name' = libs_name /\ libs_deps' = libs_deps)]_vars

\* C12: with all MAX_LIB slots occupied, a call of DRW_shader_library_add_file
\* fails without aborting and leaves every slot's source, name and dependency
\* bitmap unchanged; there are never more than MAX_LIB registered fragments.
C12_FullRegistryRejects ==
  [][/\ (Registered = Slots /\ lib_op' \in {"add_file", "add_file_full", "abort"}) =>
          /\ lib_op' # "abort"
          /\ libs' = libs /\ libs_name' = libs_name /\ libs_deps' = libs_deps
     /\ Cardinality(Registered') <= MAX_LIB]_vars

\* C12, the failing case: the library was full, a further fragment was added
\* and the assertion of line 607 ended the process.
C12_Aborted == Lib_Aborted /\ Registered = Slots

\* ------------------------------------------------- vocabulary, the requests

\* The number of requests of the list q that refer to unit m.
Occurrences(q, m) == Cardinality({i \in 1..Len(q) : q[i] = m})

\* The number of places of instance c that hold a request of unit m: its
\* queue, its conclude list, its mat_compiling slot.
PlacesIn(c, m) ==
  Occurrences(comp[c].queue, m) + Occurrences(comp[c].queue_conclude, m) +
  (IF comp[c].mat_compiling = m THEN 1 ELSE 0)

\* The same over the live instances c, c + 1, ...
RECURSIVE PlacesFrom(_, _)
PlacesFrom(c, m) ==
  IF c > NumMats THEN 0
  ELSE (IF c \in LiveComps THEN PlacesIn(c, m) ELSE 0) + PlacesFrom(c + 1, m)

Places(m) == PlacesFrom(1, m)

\* C13: every live request is in exactly one place (a queue, a conclude list
\* or a mat_compiling slot) of exactly one instance: for every unit, the
\* places that hold a request of it are as many as its live requests, no
\* request being held twice, by two instances, or by none, and no place
\* holding a request that was freed.
C13_RequestInOnePlace ==
  \A m \in Mats : dsh_live[m] >= 0 /\ Places(m) = dsh_live[m]

\* C13 witness: a queue migration from a running instance.  Instance 1 was
\* started with the request of unit 1; before its worker popped, unit 2 was
\* submitted and instance 2 took over the queue: both requests are in the
\* queue of instance 2 and nowhere in instance 1, which is still live.
C13_Migrated ==
  /\ job.running /\ job.run_customdata = 1 /\ job.customdata = 2
  /\ wpc # "none" /\ 1 \in LiveComps
  /\ comp[1].queue = <<>> /\ comp[2].queue = <<1, 2>>
  /\ dsh_live = [m \in Mats |-> 1]

\* C14: each unit is referred to by at most one live request, and at most one
\* place of all queues, conclude lists and mat_compiling slots holds one.
C14_OneRequestPerUnit ==
  \A m \in Mats : dsh_live[m] <= 1 /\ Places(m) <= 1

\* C14 witness: after calls with a mix of flags (a deferred submission of
\* each unit, then a non-deferred call for a unit the worker is compiling)
\* the calling thread is about to compile that unit itself, while each unit
\* still has its one request: one in the worker's mat_compiling slot, one in
\* the queue of the pending instance.
C14_Witness ==
  /\ mpc = "compile" /\ m_call.stage = "forced" /\ ~m_call.deferred
  /\ \A m \in Mats : dsh_live[m] = 1
  /\ job.running /\ job.customdata # NULL
  /\ comp[RunComp].mat_compiling = m_call.mat
  /\ \E o \in Mats : o # m_call.mat /\ InList(comp[job.customdata].queue, o)

\* C15: DRW_deferred_shader_remove always completes: a call that has entered
\* it (at line 207, before its list_lock) or waits in it for compilation_lock
\* (line 303, holding list_lock) eventually returns; worker and remover never
\* block each other for good on list_lock and compilation_lock.
C15_RemoveCompletes ==
  (mpc \in {"remove", "remove_wait"}) ~> (mpc \notin {"remove", "remove_wait"})

\* C15 witness: the remove called by drw_deferred_shader_add found the worker
\* compiling the unit, waited for compilation_lock holding list_lock, and has
\* returned to line 208.
C15_Witness ==
  /\ mpc = "compile" /\ m_call.waited
  /\ \A c \in LiveComps : comp[c].list_lock # "main"

\* C16: no thread holds a list_lock while it executes GPU_material_compile
\* itself: the worker holds none from line 134 to line 147, the calling thread
\* none inside the compile of line 208, and the main thread holds one only
\* while it waits inside DRW_deferred_shader_remove, where it runs neither a
\* teardown (line 177) nor the immediate compile.
C16_NoListLockInOwnCompile ==
  /\ wpc \in {"compile", "compiling", "flush", "relock"} =>
       \A c \in LiveComps : comp[c].list_lock # "worker"
  /\ mpc \in {"compile", "compiling"} =>
       \A c \in LiveComps : comp[c].list_lock # "main"
  /\ (\E c \in LiveComps : comp[c].list_lock = "main") => mpc = "remove_wait"

\* C16 witness: the worker and the calling thread are each inside
\* GPU_material_compile, of different units, and every list_lock is free.
C16_Witness ==
  /\ wpc = "compiling" /\ mpc = "compiling"
  /\ comp[RunComp].mat_compiling # m_call.mat
  /\ \A c \in LiveComps : comp[c].list_lock = "free"

\* The worker thread never waits for compilation_lock while it holds
\* list_lock (line 133): only the worker keeps that lock, and a remover that
\* has it holds list_lock too.
Exec_MutexNeverWaits ==
  (wpc = "mutex" /\ comp[RunComp].list_lock = "worker") =>
     comp[RunComp].compilation_lock = "free"

C18_QueuedDeferredIsNoOp ==
  [][(/\ mpc = "idle" /\ m_call'.fn \in {"material", "world"}
      /\ m_call'.deferred /\ status[m_call'.mat] = GPU_MAT_QUEUED) =>
        /\ mpc' = "return" /\ m_call'.stage = "none"
        /\ UNCHANGED <<status, comp, job, ctx_live, n_compile, dsh_live>>]_vars

\* C18 witness: such a call has returned; the unit is QUEUED with its one
\* request still in a queue, and was never compiled.
C18_Witness ==
  /\ mpc = "return" /\ m_call.fn \in {"material", "world"}
  /\ m_call.deferred /\ m_call.stage = "none"
  /\ status[m_call.mat] = GPU_MAT_QUEUED /\ n_compile[m_call.mat] = 0
  /\ \E c \in LiveComps : InList(comp[c].queue, m_call.mat)

\* The first call of drw_deferred_shader_add by a call took the deferred path
\* (line 203 false): deferred is true, the call is not in image render and
\* there is a UI context.
DeferredPath(call) == ~Add_Immediate(call.deferred, call.image_render, call.evil_C)

\* 'Effective deferred' of a call: deferred as asked, false in image render.
EffectiveDeferred(call) == call.deferred /\ ~call.image_render

\* What a call that found its unit CREATED leaves when it returns.  Submitted
\* as deferred (d): the unit is QUEUED, was not compiled, and its one request
\* is the tail of the queue of the job's pending instance.  Else: the unit was
\* compiled once and has no request.
Created_Outcome(call, d) ==
  LET mat == call.mat
  IN IF d
     THEN /\ status[mat] = GPU_MAT_QUEUED /\ n_compile[mat] = 0
          /\ dsh_live[mat] = 1 /\ Places(mat) = 1
          /\ job.customdata # NULL
          /\ comp[job.customdata].queue # <<>>
          /\ comp[job.customdata].queue[Len(comp[job.customdata].queue)] = mat
     ELSE /\ status[mat] \in {GPU_MAT_SUCCESS, GPU_MAT_FAILED}
          /\ n_compile[mat] = 1
          /\ dsh_live[mat] = 0 /\ Places(mat) = 0

\* What every call on a CREATED unit does, whatever path it takes: the unit is
\* marked QUEUED and drw_deferred_shader_add is called; the deferred path
\* appends the request to the queue taken over from the job's custom data;
\* after drw_deferred_shader_add returned, "force compilation" is not taken.
Created_Submits ==
  /\ (/\ mpc = "idle" /\ m_call'.fn \in {"material", "world"}
      /\ status[m_call'.mat] = GPU_MAT_CREATED) =>
        /\ status'[m_call'.mat] = GPU_MAT_QUEUED /\ m_call'.stage = "first"
        /\ n_compile[m_call'.mat] = 0 /\ dsh_live[m_call'.mat] = 0
        /\ mpc' \in {"add_deferred", "remove"}
  /\ (mpc = "add_deferred" /\ mpc' # mpc) =>
        LET old_comp == WM_jobs_customdata_get(job)
        IN comp'[job'.customdata].queue =
             Append(IF old_comp # NULL THEN comp[old_comp].queue ELSE <<>>,
                    m_call.mat)
  /\ (mpc = "force_check" /\ mpc' # mpc) => mpc' = "return"

\* C19, with the path drw_deferred_shader_add takes: a call on a CREATED unit
\* marks it QUEUED and submits it once.  If deferred is true, the call is not
\* in image render and a UI context exists, one request for the unit is
\* appended at the tail of the job's queue and no compile runs in the call;
\* else GPU_material_compile is invoked exactly once in the call and no
\* request exists.  "Force compilation" never follows in the same call.
C19_CreatedSubmittedOnce ==
  [][/\ Created_Submits
     /\ (mpc = "idle" /\ m_call'.stage = "first") =>
          mpc' = IF DeferredPath(m_call') THEN "add_deferred" ELSE "remove"
     /\ (mpc' = "return" /\ m_call'.stage = "first") =>
          Created_Outcome(m_call, DeferredPath(m_call))']_vars

\* C19 witness: the second unit was submitted deferred; its request is the
\* tail of the queue that was taken over with the first unit's request.
C19_Witness ==
  /\ mpc = "return" /\ m_call.stage = "first" /\ DeferredPath(m_call)
  /\ Len(comp[job.customdata].queue) = 2
  /\ comp[job.customdata].queue[2] = m_call.mat
  /\ n_compile = [m \in Mats |-> 0]

\* C19 as stated, on the effective deferred flag alone: with effective
\* deferred = true one request is appended and no compile runs in the call,
\* with effective deferred = false the unit is compiled once in the call.
C19_AsStated ==
  [][/\ Created_Submits
     /\ (mpc' = "return" /\ m_call'.stage = "first") =>
          Created_Outcome(m_call, EffectiveDeferred(m_call))']_vars

\* A call that found its unit QUEUED, was asked not to defer, and began while
\* a queue held the unit's request.
Forced_FromQueue ==
  /\ m_call.fn \in {"material", "world"} /\ m_call.stage = "forced"
  /\ ~m_call.deferred /\ m_call.in_queue

\* C20: a non-deferred call on a QUEUED unit whose request is in a queue
\* compiles the unit on the calling thread, bypassing the worker: when the
\* calling thread enters GPU_material_compile (line 208) the request has been
\* unlinked by this call and the unit was not compiled; from then on the unit
\* has exactly one compile, the calling thread's, and when the call returns
\* no request of the unit is left for the worker.
C20_ForcedBypassesWorker ==
  Forced_FromQueue =>
     /\ mpc = "compile" =>
          /\ m_call.dsh /\ ~InSomeQueue(m_call.mat)
          /\ n_compile[m_call.mat] = 0
     /\ mpc \in {"compiling", "return"} => n_compile[m_call.mat] = 1
     /\ mpc = "return" =>
          /\ status[m_call.mat] \in {GPU_MAT_SUCCESS, GPU_MAT_FAILED}
          /\ Places(m_call.mat) = 0 /\ dsh_live[m_call.mat] = 0

\* C20, the case where it works: the request was still in the queue when
\* remove looked; it was unlinked and the calling thread's compile is the
\* unit's only one.
C20_Bypassed ==
  /\ Forced_FromQueue /\ mpc = "return" /\ m_call.dsh
  /\ n_compile[m_call.mat] = 1 /\ job.running

\* The forcing call whose remove (line 295) found the request in the queue
\* and unlinked it: from the calling thread's compile on, the unit has one
\* compile and no request.
Forced_UnlinkedCompilesOnce ==
  (Forced_FromQueue /\ m_call.dsh) =>
     /\ mpc = "compile" =>
          ~InSomeQueue(m_call.mat) /\ n_compile[m_call.mat] = 0
     /\ mpc \in {"compiling", "return"} => n_compile[m_call.mat] = 1
     /\ mpc = "return" =>
          /\ status[m_call.mat] \in {GPU_MAT_SUCCESS, GPU_MAT_FAILED}
          /\ Places(m_call.mat) = 0 /\ dsh_live[m_call.mat] = 0

\* C20, the race: the worker popped the request between the status test of
\* the call (line 449 / 491) and remove's lock (line 293); remove waited
\* for the worker's compile and the calling thread now compiles the unit a
\* second time.
C20_CompiledTwice ==
  /\ Forced_FromQueue /\ mpc = "return" /\ ~m_call.dsh /\ m_call.waited
  /\ n_compile[m_call.mat] = 2

\* ---------------------------------------------------------------- C21

\* The live instances that own the dedicated context ctx.
OwnersOf(ctx) ==
  {c \in LiveComps : comp[c].own_context /\ comp[c].gl_context = ctx}

\* The step of drw_deferred_shader_add that creates an instance while the job
\* has custom data (old_comp of line 230).
Add_OverOld ==
  mpc = "add_deferred" /\ mpc' # mpc /\ WM_jobs_customdata_get(job) # NULL

\* C21: a dedicated context never has two owners among the live instances;
\* an instance created while the job has an old instance takes the old
\* instance's context, no context is created, and the old instance's
\* own_context is false after the very step that sets the new one's: the
\* ownership the old instance had is the new instance's.
C21_OwnershipNeverDuplicated ==
  [][/\ \A ctx \in ctx_live' : Cardinality(OwnersOf(ctx)') <= 1
     /\ Add_OverOld =>
          LET old_comp == WM_jobs_customdata_get(job)
              c == AllocComp
          IN /\ comp'[c].gl_context = comp[old_comp].gl_context
             /\ ctx_live' = ctx_live
             /\ ~comp'[old_comp].own_context
             /\ comp'[c].own_context = comp[old_comp].own_context]_vars

\* C21: the worker runs an old instance that gave its dedicated context to
\* the pending instance; both are live and refer to the same context.
C21_Witness ==
  /\ job.running /\ job.customdata # NULL /\ wpc = "compiling"
  /\ comp[job.customdata].own_context /\ ~comp[RunComp].own_context
  /\ comp[job.customdata].gl_context = comp[RunComp].gl_context
  /\ comp[RunComp].gl_context \in ctx_live
  /\ OwnersOf(comp[RunComp].gl_context) = {job.customdata}

\* ---------------------------------------------------------------- C22

\* The instances drw_deferred_shader_compilation_free frees in the step.
TornDown == {c \in Comps : comp[c].mem = "live" /\ comp'[c].mem = "freed"}

\* own_context of instance c when a teardown of the step reads it (line 186):
\* drw_deferred_shader_add has passed the ownership of the pending instance
\* on (line 244) before WM_jobs_customdata_set frees that instance (line 268).
OwnerAtTeardown(c) == comp[c].own_context /\ mpc # "add_deferred"

\* C22: a teardown disposes of the instance's context if and only if the
\* instance owns it; no context is disposed of twice, the main context never,
\* a live context not yet; a live dedicated context has one live owner, whose
\* teardown will dispose of it, and once every instance is torn down no
\* created context is left; the context active on the worker thread has not
\* been disposed of.
C22_ContextDestroyedOnce ==
  [][/\ \A x \in Contexts :
          n_dispose'[x] - n_dispose[x] =
             Cardinality({c \in TornDown :
                            OwnerAtTeardown(c) /\ comp[c].gl_context = x})
     /\ \A x \in Contexts :
          /\ n_dispose'[x] <= 1
          /\ x = DST_gl_context => n_dispose'[x] = 0
          /\ x \in ctx_live' => n_dispose'[x] = 0 /\ Cardinality(OwnersOf(x)') = 1
          /\ n_dispose'[x] > n_dispose[x] => x \in ctx_live /\ x \notin ctx_live'
     /\ (LiveComps' = {}) => ctx_live' = {}
     /\ (w_ctx' # NULL) => n_dispose'[w_ctx'] = 0]_vars

\* C22: the first instance gave its context to the second and was torn down
\* without disposing of it; the second was torn down and disposed of it.
C22_Witness ==
  /\ ~use_main_context /\ job = NoJob /\ ctx_live = {}
  /\ comp[1].mem = "freed" /\ comp[2].mem = "freed"
  /\ n_dispose[WM_opengl_context_create(1)] = 1
  /\ n_dispose[WM_opengl_context_create(2)] = 0
  /\ n_compile = [m \in Mats |-> 1]

\* ------------------------------------------------- C3 and the conclude list

\* Teardown in this step concludes a request of unit m (lines 176-178).
ConcludedAtTeardown(m) ==
  \E c \in TornDown : InList(comp[c].queue_conclude, m)

\* C3 with the conclude list: if only deferred submissions were made, all
\* before the worker's first pop, then the first GPU_material_compile call on
\* a unit is the worker's, a second one is teardown's for a request the
\* worker moved to the conclude list, there is no third, and once the job has
\* finished and is torn down every submitted unit has been compiled and has
\* left QUEUED, and no other unit was compiled.
C3_OncePlusConclude ==
  [][batch' \in {"open", "draining"} =>
       \A m \in Mats :
          /\ n_compile'[m] <= 2
          /\ n_compile'[m] > n_compile[m] =>
               IF n_compile[m] = 0
               THEN wpc = "compile" /\ comp[RunComp].mat_compiling = m
                    /\ n_compile'[m] = 1
               ELSE ConcludedAtTeardown(m) /\ n_compile'[m] = 2
          /\ (job' = NoJob /\ mpc' = "idle") =>
               /\ status'[m] # GPU_MAT_QUEUED
               /\ n_compile'[m] = 0 <=> status'[m] = GPU_MAT_CREATED]_vars

\* C3 with the conclude list: both units were submitted before the first pop,
\* the job is gone; the worker left unit 1 to be concluded and teardown
\* compiled it again, unit 2 was compiled once.
C3_Concluded ==
  /\ batch = "draining" /\ job = NoJob /\ mpc = "idle"
  /\ n_compile = <<2, 1>>
  /\ \A m \in Mats : status[m] \in {GPU_MAT_SUCCESS, GPU_MAT_FAILED}

\* ---------------------------------------------------------------- C23

\* The requests of unit m in the conclude lists of the instances c..NumMats
\* that are torn down in the step.
RECURSIVE ConcludedFrom(_, _)
ConcludedFrom(c, m) ==
  IF c > NumMats THEN 0
  ELSE (IF c \in TornDown THEN Occurrences(comp[c].queue_conclude, m) ELSE 0)
       + ConcludedFrom(c + 1, m)

\* drw_deferred_shader_compilation_free is about to run on instance c: called
\* by wm_jobs_timer for the ended worker's data, by the kill for the pending
\* and the running data, by WM_jobs_customdata_set for the pending data.
TeardownDue(c) ==
  /\ c # NULL
  /\ \/ mpc = "idle" /\ Timer_Ended(job) /\ c = job.run_customdata
     \/ mpc = "kill_join" /\ wpc = "none" /\ c \in {job.customdata, job.run_customdata}
     \/ mpc = "add_deferred" /\ c = job.customdata

\* Where line 186 is reached (the memory Free_Conclude returns): the
\* conclude list is empty, GPU_material_compile has been called once for
\* each request that was in it, every request of the instance is freed, and
\* nothing is destroyed yet.
Free_ConcludedBeforeDispose(c, oks) ==
  LET S == Free_Conclude(Memory, c, oks)
  IN /\ S.comp[c].queue_conclude = <<>>
     /\ S.comp[c].mem = "live"
     /\ S.comp[c].gl_context = comp[c].gl_context
     /\ S.ctx_live = ctx_live /\ S.n_dispose = n_dispose
     /\ \A m \in Mats :
          /\ S.n_compile[m] = n_compile[m] + Occurrences(comp[c].queue_conclude, m)
          /\ S.dsh_live[m] = dsh_live[m] - Occurrences(comp[c].queue_conclude, m)
                                         - Occurrences(comp[c].queue, m)
          /\ InList(comp[c].queue_conclude, m) =>
               S.status[m] \in {GPU_MAT_SUCCESS, GPU_MAT_FAILED}
     /\ drw_deferred_shader_compilation_free(Memory, c, oks) = Free_Dispose(S, c)

\* C23: whenever a teardown is due, the context destruction step (line 186)
\* is reached with queue_conclude empty and one GPU_material_compile call
\* made for each request that was in it; and every step that tears
\* instances down raises a unit's compile count by the number of its
\* requests in their conclude lists, neither more nor less.
C23_ConcludedBeforeDispose ==
  [][/\ \A c \in Comps : TeardownDue(c) =>
          \A oks \in [ListSet(comp[c].queue_conclude) -> BOOLEAN] :
             Free_ConcludedBeforeDispose(c, oks)
     /\ TornDown # {} =>
          \A m \in Mats : n_compile'[m] = n_compile[m] + ConcludedFrom(1, m)]_vars

\* C23: the worker left both units to be concluded; the teardown has
\* compiled both again, then disposed of the context.
C23_Witness ==
  /\ job = NoJob /\ mpc = "idle" /\ LiveComps = {}
  /\ n_compile = [m \in Mats |-> 2]
  /\ dsh_live = [m \in Mats |-> 0]
  /\ \A m \in Mats : status[m] \in {GPU_MAT_SUCCESS, GPU_MAT_FAILED}
  /\ \E x \in Contexts : n_dispose[x] = 1

\* ---------------------------------------------------------------- C24

\* The calling thread (line 208) and the worker (line 137) are both inside
\* GPU_material_compile of the same unit.
CompilesOverlap ==
  mpc = "compiling" /\ WorkerInsideCompile(m_call.mat)

\* C24: no two GPU_material_compile calls on the same unit overlap in time,
\* whatever the interleaving of the main thread and the worker and whichever
\* instance the worker runs.  (The compiles of a teardown are inside one
\* main-thread step, taken when the instance's worker has ended or never
\* ran.)
C24_NoOverlappingCompiles == ~CompilesOverlap

\* C24, the overlap: the worker runs a previous instance and compiles the
\* unit; DRW_deferred_shader_remove looked at the pending instance only, did
\* not wait, and the calling thread compiles the same unit.
C24_Overlap ==
  /\ CompilesOverlap
  /\ job.customdata # NULL /\ job.customdata # RunComp
  /\ ~m_call.waited /\ ~m_call.dsh
  /\ n_compile[m_call.mat] = 2

\* With no pending instance, DRW_deferred_shader_remove examines the
\* instance the worker runs, and the two compiles do not overlap.
Compile_OverlapOnlyStale == CompilesOverlap => job.customdata # NULL

\* ---------------------------------------------------------------- C25

\* The worker's GPU_material_compile call (line 137) is on a QUEUED unit.
Exec_CompilesQueued ==
  (wpc = "compile" /\ wpc' = "compiling") =>
     status[comp[RunComp].mat_compiling] = GPU_MAT_QUEUED

\* The calling thread's GPU_material_compile call (line 208) is on a QUEUED
\* unit.
Add_CompilesQueued ==
  (mpc = "compile" /\ mpc' = "compiling") => status[m_call.mat] = GPU_MAT_QUEUED

\* The GPU_material_compile calls of a teardown (line 177) are on QUEUED
\* units (a unit has at most one request, hence at most one call in the step).
Free_CompilesQueued ==
  \A m \in Mats : ConcludedFrom(1, m) > 0 => status[m] = GPU_MAT_QUEUED

\* C25: GPU_material_compile is only invoked on a unit whose status is QUEUED
\* at the moment of the call, by the worker, by the conclude pass of a
\* teardown and by the immediate path alike.
C25_CompileOnlyQueued ==
  [][Exec_CompilesQueued /\ Add_CompilesQueued /\ Free_CompilesQueued]_vars

\* C25, the interleaving the claim names: the non-deferred call found the
\* unit QUEUED, waited in remove for the worker's compile of it, and is now
\* inside its own compile of the unit, which the worker's compile has left
\* SUCCESS or FAILED.
C25_CompiledAfterWait ==
  /\ mpc = "compiling" /\ m_call.stage = "forced" /\ m_call.waited
  /\ status[m_call.mat] \in {GPU_MAT_SUCCESS, GPU_MAT_FAILED}
  /\ n_compile[m_call.mat] = 2
  /\ ~WorkerInsideCompile(m_call.mat)

\* ---------------------------------------------------------------- C26

\* The last n elements of the sequence s, last first.
LastReversed(s, n) == [i \in 1..n |-> s[Len(s) + 1 - i]]

\* C26: an iteration of the worker's loop that is not stopped pops the
\* request appended last among those still in comp->queue, or leaves the
\* loop when it finds the queue empty; hence requests that were all submitted
\* before the first pop, with no removal in between, are compiled by the
\* worker in the reverse of their submission order, all of them once the job
\* is gone.
C26_TailFirst ==
  [][/\ (wpc = "pop" /\ ~job.stop /\ wpc' # wpc) =>
          LET q == comp[RunComp].queue
          IN IF q = <<>>
             THEN wpc' = "exit" /\ compile_order' = compile_order
                  /\ comp'[RunComp].mat_compiling = NULL
             ELSE /\ wpc' = "mutex"
                  /\ comp'[RunComp].mat_compiling = q[Len(q)]
                  /\ comp'[RunComp].queue = SubSeq(q, 1, Len(q) - 1)
     /\ batch' \in {"open", "draining"} =>
          /\ Len(compile_order') <= Len(submit_order')
          /\ compile_order' = LastReversed(submit_order', Len(compile_order'))
          /\ (job' = NoJob /\ mpc' = "idle") =>
                Len(compile_order') = Len(submit_order')]_vars

\* C26: both units were submitted before the worker started, in the order
\* 1, 2; the worker has compiled them in the order 2, 1 and the job is gone.
C26_Witness ==
  /\ batch = "draining" /\ job = NoJob /\ mpc = "idle"
  /\ submit_order = <<1, 2>> /\ compile_order = <<2, 1>>

\* ---------------------------------------------------------------- C27

\* The positions of the worker between its pop (line 123) and the end of
\* that iteration (line 155).
Exec_InIteration ==
  wpc \in {"mutex", "compile", "compiling", "flush", "relock", "conclude"}

\* C27: the step of lines 148-155 is taken under list_lock; it appends the
\* request to the conclude list if and only if the unit is QUEUED, and frees
\* it otherwise, leaving the unit's status as it is; either way it leaves
\* mat_compiling NULL when it releases list_lock.  Hence mat_compiling is
\* set only in the instance the worker runs and only while the worker is
\* between a pop and the end of that iteration.
C27_ConcludeOrDiscard ==
  [][/\ (wpc = "conclude" /\ wpc' # wpc) =>
          LET c == RunComp
              mat == comp[c].mat_compiling
              queued == status[mat] = GPU_MAT_QUEUED
          IN /\ comp[c].list_lock = "worker"
             /\ comp'[c].queue_conclude =
                   IF queued THEN Append(comp[c].queue_conclude, mat)
                   ELSE comp[c].queue_conclude
             /\ dsh_live'[mat] = IF queued THEN dsh_live[mat] ELSE dsh_live[mat] - 1
             /\ comp'[c].queue = comp[c].queue
             /\ status' = status
             /\ comp'[c].mat_compiling = NULL
             /\ comp'[c].list_lock = "free"
     /\ \A c \in Comps :
          comp'[c].mat_compiling # NULL =>
             /\ job'.running /\ c = job'.run_customdata
             /\ Exec_InIteration']_vars

\* C27: the worker has ended two iterations: the request of the unit it
\* compiled first was freed, that of the second, still QUEUED, is in the
\* conclude list; mat_compiling is NULL again.
C27_Witness ==
  /\ wpc = "lock" /\ comp[RunComp].mat_compiling = NULL
  /\ \E m \in Mats, o \in Mats :
       /\ compile_order = <<o, m>>
       /\ comp[RunComp].queue_conclude = <<m>> /\ status[m] = GPU_MAT_QUEUED
       /\ dsh_live[m] = 1
       /\ status[o] \in {GPU_MAT_SUCCESS, GPU_MAT_FAILED} /\ dsh_live[o] = 0

\* ---------------------------------------------------------------- C28

\* C28: the step of drw_deferred_shader_add that creates an instance while
\* the job has an old one is taken with the old instance's list_lock free
\* (line 237 acquires it: the old worker is not inside its pop); afterwards
\* the new queue is the old pending queue, in its order, followed by the new
\* request, no request was freed, and the old instance, if it is still
\* there (it is the one the worker runs), has an empty pending queue and its
\* conclude list and mat_compiling as before; an old instance that was the
\* job's pending data is freed in the step and had neither.
C28_MigrationKeepsRequests ==
  [][Add_OverOld =>
       LET old_comp == WM_jobs_customdata_get(job)
           c == AllocComp
           mat == m_call.mat
       IN /\ comp[old_comp].list_lock = "free"
          /\ comp'[c].queue = Append(comp[old_comp].queue, mat)
          /\ comp'[c].queue_conclude = <<>> /\ comp'[c].mat_compiling = NULL
          /\ dsh_live' = [dsh_live EXCEPT ![mat] = @ + 1]
          /\ \A m \in Mats : Places(m)' = Places(m) + (IF m = mat THEN 1 ELSE 0)
          /\ IF comp'[old_comp].mem = "live"
             THEN /\ old_comp = job.run_customdata
                  /\ comp'[old_comp].queue = <<>>
                  /\ comp'[old_comp].queue_conclude = comp[old_comp].queue_conclude
                  /\ comp'[old_comp].mat_compiling = comp[old_comp].mat_compiling
             ELSE /\ old_comp = job.customdata
                  /\ comp[old_comp].queue_conclude = <<>>
                  /\ comp[old_comp].mat_compiling = NULL]_vars

\* C28: the request of unit 1 was in the queue of the instance the worker
\* runs, the worker about to take list_lock for its first pop, when unit 2
\* was submitted: the new instance has both requests in submission order and
\* the worker will find its queue empty.
C28_Witness ==
  /\ mpc = "force_check" /\ m_call.stage = "first" /\ m_call.mat = 2
  /\ job.running /\ job.run_customdata = 1 /\ job.customdata = 2
  /\ wpc = "lock" /\ compile_order = <<>>
  /\ comp[1].queue = <<>> /\ comp[2].queue = <<1, 2>>
  /\ submit_order = <<1, 2>>

\* ---------------------------------------------------------------- C29

Exec_After(p) ==
  CASE p = "mutex" -> "compile"
    [] p = "compile" -> "compiling"
    [] p = "compiling" -> "flush"
    [] p = "flush" -> "relock"
    [] p = "relock" -> "conclude"
    [] p = "conclude" -> "lock"

\* C30: an iteration that has popped a request goes through its compile to
\* its end whatever stop is and whatever the main thread does, and the
\* instance is not freed under it; the worker looks at stop only at the top
\* of the loop, and when it finds it set it leaves without popping, with
\* mat_compiling NULL and neither lock held; and, the worker thread being
\* scheduled, every popped request's GPU_material_compile returns.
C30_CompileNeverAborted ==
  /\ [][/\ (Exec_InIteration /\ wpc' # wpc) => wpc' = Exec_After(wpc)
        /\ Exec_InIteration =>
             /\ comp'[RunComp].mem = "live" /\ job'.run_customdata = RunComp
             /\ comp'[RunComp].mat_compiling = comp[RunComp].mat_compiling
                  \/ (wpc = "conclude" /\ wpc' = "lock")
        /\ (wpc = "pop" /\ job.stop /\ wpc' # wpc) =>
             /\ wpc' = "exit"
             /\ comp'[RunComp].queue = comp[RunComp].queue
             /\ comp'[RunComp].mat_compiling = NULL
             /\ comp'[RunComp].list_lock = "free"
             /\ comp'[RunComp].compilation_lock = "free"
             /\ compile_order' = compile_order]_vars
  /\ (wpc = "mutex") ~> (wpc = "flush")

\* C30: the job was told to stop while its worker compiled the request it
\* had popped; the compile ran to its end and the worker, back at the top of
\* the loop, has left without popping the request that remains.
C30_Witness ==
  /\ wpc = "exit" /\ job.stop /\ mpc = "kill_join"
  /\ Len(compile_order) = 1 /\ n_compile[compile_order[1]] = 1
  /\ Len(comp[RunComp].queue) = 1
  /\ comp[RunComp].mat_compiling = NULL
  /\ comp[RunComp].list_lock = "free" /\ comp[RunComp].compilation_lock = "free"

\* ---------------------------------------------------------------- C31

\* The steps that continue a handler the main thread is inside of.
MainNext ==
  \/ From_ForceCheck
  \/ Return
  \/ Add_Remove
  \/ Remove_Wait
  \/ Add_CompileCall
  \/ Add_CompileReturn
  \/ Add_Deferred
  \/ WM_jobs_kill_free

\* Spec with the worker thread scheduled and getting a lock that keeps
\* becoming free, every handler of the main thread running to its end, and the
\* window manager's timer running whenever the main thread keeps coming back
\* to its event loop.  Nothing is assumed of
\* when, or whether, a function is called from outside.
JobFairSpec ==
  /\ Init /\ [][Next]_vars
  /\ SF_vars(WorkerNext)
  /\ WF_vars(MainNext)
  /\ SF_vars(wm_jobs_timer_end)
  /\ SF_vars(wm_jobs_timer_start)

\* A unit is left behind: it is QUEUED, no handler is running, no queue,
\* conclude list or mat_compiling slot of a live instance holds a request of
\* it, and no DRW_deferred_shader_remove unlinked its request.
Stranded(m) ==
  /\ status[m] = GPU_MAT_QUEUED
  /\ mpc = "idle"
  /\ m \notin Requested
  /\ m \notin unlinked

\* C31: every unit submitted for deferred compilation eventually leaves the
\* QUEUED status (reaches SUCCESS or FAILED) unless it is removed, when the
\* worker is scheduled and compiles end: no submissions, migrations, stop
\* requests and teardowns leave a unit QUEUED with no live request anywhere.
C31_QueuedEventuallyCompiled ==
  \A m \in Mats :
     (status[m] = GPU_MAT_QUEUED) ~> (status[m] # GPU_MAT_QUEUED \/ m \in unlinked)

\* C31, the state the claim excludes: the job is gone, the unit is QUEUED and
\* was never compiled, no request of it is left and none was removed.
C31_Stranded ==
  \E m \in Mats : Stranded(m) /\ job = NoJob /\ n_compile[m] = 0

\* ---------------------------------------------------------------- C32

\* The pending queue of instance c when a teardown of the step reaches line
\* 170: drw_deferred_shader_add has moved the queue of the pending instance to
\* the new one (line 238) before WM_jobs_customdata_set frees that instance.
QueueAtTeardown(c) ==
  IF mpc = "add_deferred" THEN Add_MovedFrom(comp[c].queue) ELSE comp[c].queue

\* Lines 170-181 on instance c: the pending queue is emptied and its requests
\* freed; a unit that has a request there and none in the conclude list
\* keeps its status and its compile count.
Free_PendingNotCompiled(c, oks) ==
  LET S == Free_Conclude(Memory, c, oks)
  IN /\ S.comp[c].queue = <<>>
     /\ \A m \in ListSet(comp[c].queue) \ ListSet(comp[c].queue_conclude) :
          /\ S.status[m] = status[m]
          /\ S.n_compile[m] = n_compile[m]
          /\ S.dsh_live[m] = dsh_live[m] - Occurrences(comp[c].queue, m)

\* C32: teardown never compiles a request that is still in the pending queue:
\* drw_deferred_shader_compilation_free frees every request remaining in
\* comp->queue without invoking GPU_material_compile for it and without
\* changing the unit's status; the only compiles of a teardown, and the only
\* status changes, are those of the conclude list.
C32_TeardownSkipsPending ==
  [][/\ \A c \in Comps : TeardownDue(c) =>
          \A oks \in [ListSet(comp[c].queue_conclude) -> BOOLEAN] :
             Free_PendingNotCompiled(c, oks)
     /\ \A c \in TornDown : \A m \in ListSet(QueueAtTeardown(c)) :
          /\ dsh_live'[m] < dsh_live[m]
          /\ ConcludedFrom(1, m) = 0 =>
               (n_compile'[m] = n_compile[m] /\ status'[m] = status[m])
     /\ TornDown # {} =>
          \A m \in Mats :
             (n_compile'[m] # n_compile[m] \/ status'[m] # status[m]) =>
                ConcludedFrom(1, m) > 0]_vars

\* C32: the job was killed while the request of unit 1 was pending and the
\* request of unit 2 was in the conclude list: the teardown compiled unit 2
\* again and freed the request of unit 1 uncompiled, the unit QUEUED as before.
C32_Witness ==
  /\ m_call.fn = "kill" /\ mpc = "return" /\ LiveComps = {}
  /\ status[1] = GPU_MAT_QUEUED /\ 1 \notin unlinked
  /\ n_compile = <<0, 2>>
  /\ dsh_live = [m \in Mats |-> 0]

\* ---------------------------------------------------------------- C33

\* C33: after DRW_deferred_shader_remove(unit) has returned, no request of the
\* unit remains in any list of any compiler instance (pending queue, conclude
\* list or mat_compiling slot), so that no later teardown conclude pass
\* invokes GPU_material_compile on a removed unit.
C33_RemovedHasNoRequest ==
  [][/\ \A m \in removed' : m \notin Requested'
     /\ \A m \in removed : ConcludedFrom(1, m) = 0]_vars

\* C33: DRW_deferred_shader_remove has returned for a unit whose request the
\* worker had moved to the conclude list; the worker has ended, and the
\* teardown that is due will compile the unit (line 177).
C33_ConcludeAfterRemove ==
  \E m \in removed :
     /\ mpc = "idle" /\ Timer_Ended(job) /\ TeardownDue(job.run_customdata)
     /\ InList(comp[job.run_customdata].queue_conclude, m)
     /\ status[m] = GPU_MAT_QUEUED /\ m \notin unlinked

\* ---------------------------------------------------------------- C34

\* The list q without the requests of unit m.
RECURSIVE Without(_, _)
Without(q, m) ==
  IF q = <<>> THEN <<>>
  ELSE (IF Head(q) = m THEN <<>> ELSE <<Head(q)>>) \o Without(Tail(q), m)

\* The step is one of DRW_deferred_shader_remove: its entry (from outside or
\* from line 207) or its return from the wait of lines 303-304.
Remove_Steps ==
  /\ mpc' # mpc
  /\ \/ mpc = "idle" /\ m_call'.fn = "remove"
     \/ mpc = "remove"
     \/ mpc = "remove_wait"

\* Unit m has a request in a queue of a live instance, or a live instance is
\* compiling it.
QueuedOrCompiling(m) ==
  \E c \in LiveComps : InList(comp[c].queue, m) \/ comp[c].mat_compiling = m

\* An instance apart from its list_lock, which remove takes and releases.
Unlocked(cp) == [cp EXCEPT !.list_lock = "free"]

\* C34: DRW_deferred_shader_remove(unit) affects only the removed unit's
\* request: the requests of all other units stay in their queues in the same
\* order, no unit's status changes (the removed unit stays QUEUED if it was),
\* shaders_done, the conclude lists, mat_compiling and the ownership of
\* contexts are unchanged, nothing is compiled, the job is untouched; and a
\* remove of a unit that is neither queued nor compiling changes nothing and
\* does not wait.
C34_RemoveFrame ==
  [][Remove_Steps =>
       LET mat == m_call'.mat
       IN /\ status' = status /\ n_compile' = n_compile /\ job' = job
          /\ ctx_live' = ctx_live /\ n_dispose' = n_dispose
          /\ wpc' = wpc /\ w_ctx' = w_ctx /\ main_lock' = main_lock
          /\ \A c \in Comps :
               /\ Unlocked(comp'[c]) =
                    [Unlocked(comp[c]) EXCEPT !.queue = comp'[c].queue]
               /\ Without(comp'[c].queue, mat) = Without(comp[c].queue, mat)
               /\ Len(comp'[c].queue) >= Len(comp[c].queue) - 1
               /\ Len(comp'[c].queue) = Len(comp[c].queue) =>
                    comp'[c].queue = comp[c].queue
          /\ \A m \in Mats \ {mat} : dsh_live'[m] = dsh_live[m]
          /\ (mpc # "remove_wait" /\ ~QueuedOrCompiling(mat)) =>
               /\ comp' = comp /\ dsh_live' = dsh_live
               /\ mpc' # "remove_wait"]_vars

\* C34: both units were queued, in the order 1, 2; DRW_deferred_shader_remove
\* of unit 1 has unlinked its request and returned; the request of unit 2 is
\* still in the queue and both units are QUEUED.
C34_Witness ==
  /\ mpc = "return" /\ m_call.fn = "remove" /\ m_call.mat = 1 /\ m_call.dsh
  /\ \E c \in LiveComps : comp[c].queue = <<2>> /\ comp[c].shaders_done = 0
  /\ submit_order = <<1, 2>>
  /\ status = [m \in Mats |-> GPU_MAT_QUEUED]

\* ---------------------------------------------------------------- C35

\* The worker pops a request in this step (lines 123-131).
Exec_Pops == wpc = "pop" /\ wpc' = "mutex"

\* The worker writes *progress in this step (line 139).
Exec_UpdatesProgress == wpc = "flush" /\ wpc' = "relock"

\* C35: each progress update of the worker is shaders_done / total, where
\* shaders_done counts the requests this instance has popped so far (the
\* current one included) and total is shaders_done plus the length of the
\* pending queue measured at the pop; so at every update
\* 1 <= shaders_done <= total, the fraction is in (0, 1], and it is 1 exactly
\* when the popped request was the last one of the queue.
C35_Progress ==
  [][/\ \A c \in Comps :
          comp'[c].shaders_done # comp[c].shaders_done =>
             \/ /\ Exec_Pops /\ c = RunComp
                /\ comp'[c].shaders_done = comp[c].shaders_done + 1
             \/ comp'[c].mem = "freed" /\ comp'[c].shaders_done = 0
     /\ \A c \in Comps : comp[c].mem = "unalloc" => comp[c].shaders_done = 0
     /\ Exec_Pops =>
          /\ Len(comp'[RunComp].queue) = Len(comp[RunComp].queue) - 1
          /\ w_total' = comp'[RunComp].shaders_done + Len(comp'[RunComp].queue)
          /\ w_total' = comp'[RunComp].shaders_done <=> comp'[RunComp].queue = <<>>
     /\ wpc \in {"mutex", "compile", "compiling", "flush"} =>
          /\ RunComp' = RunComp
          /\ w_total' = w_total
          /\ comp'[RunComp].shaders_done = comp[RunComp].shaders_done
     /\ Exec_UpdatesProgress =>
          LET shaders_done == job'.progress[1]
              total == job'.progress[2]
          IN /\ shaders_done = comp[RunComp].shaders_done
             /\ total = w_total
             /\ 1 <= shaders_done /\ shaders_done <= total
     /\ job'.progress # job.progress =>
          Exec_UpdatesProgress \/ job'.progress = NoJob.progress]_vars

\* C35: one instance has popped two requests; the first update was 1 / 2, the
\* second, for the last request of the queue, is 2 / 2.
C35_Witness ==
  /\ wpc = "relock" /\ job.progress = <<2, 2>>
  /\ comp[RunComp].shaders_done = 2 /\ comp[RunComp].queue = <<>>
  /\ compile_order = <<2, 1>>

\* ---------------------------------------------------------------- C36

\* drw_deferred_shader_add is entered in this step, from lines 444 / 486 or
\* from lines 449 / 491.
Add_Entered ==
  mpc \in {"idle", "force_check"} /\ mpc' \in {"remove", "add_deferred"}

\* Deferred compilation is not possible for the call entered in this step:
\* no UI context, image-render mode, or deferred = false (the forced call
\* passes false).
Add_NotDeferrable ==
  \/ m_call'.stage = "forced"
  \/ ~m_call'.deferred
  \/ m_call'.image_render
  \/ ~m_call'.evil_C

\* The main thread takes a step inside lines 205-209.
Add_ImmediateStep ==
  /\ m_call.fn \in {"material", "world"}
  /\ mpc \in {"remove", "remove_wait", "compile", "compiling"}
  /\ mpc' # mpc

\* C36: when deferred compilation is not possible (no UI context, image-render
\* mode, or deferred = false) drw_deferred_shader_add removes any pending
\* request of the unit, then compiles the unit on the calling thread, and
\* creates nothing: no request, no compiler instance, no job, no context, and
\* no queue of an existing instance gains an entry.
C36_ImmediateCreatesNothing ==
  [][/\ Add_Entered => (mpc' = "remove" <=> Add_NotDeferrable)
     /\ Add_ImmediateStep =>
          /\ mpc' \in {"remove_wait", "compile", "compiling", "force_check", "return"}
          /\ mpc' = "compile" => mpc \in {"remove", "remove_wait"}
          /\ mpc' = "compiling" => mpc = "compile"
          /\ \A c \in Comps :
               /\ comp'[c].mem = comp[c].mem
               /\ Len(comp'[c].queue) <= Len(comp[c].queue)
               /\ comp'[c].queue_conclude = comp[c].queue_conclude
               /\ comp'[c].gl_context = comp[c].gl_context
               /\ comp'[c].own_context = comp[c].own_context
          /\ \A m \in Mats : dsh_live'[m] <= dsh_live[m]
          /\ ctx_live' = ctx_live /\ job' = job /\ submit_order' = submit_order
     /\ (Add_ImmediateStep /\ mpc = "compile") =>
          /\ ~InSomeQueue(m_call.mat)
          /\ n_compile' = [n_compile EXCEPT ![m_call.mat] = @ + 1]
     /\ (Add_ImmediateStep /\ mpc = "compiling") =>
          /\ status'[m_call.mat] \in {GPU_MAT_SUCCESS, GPU_MAT_FAILED}
          /\ \A m \in Mats \ {m_call.mat} : status'[m] = status[m]]_vars

\* C36: unit 2 is queued in the job's instance; unit 1 was requested with
\* deferred = true but without a UI context, was compiled by the call, and the
\* call has returned: there is still one instance, one request and one context.
C36_Witness ==
  /\ mpc = "return" /\ m_call.mat = 1 /\ m_call.stage = "first"
  /\ m_call.deferred /\ ~m_call.image_render /\ ~m_call.evil_C
  /\ status[1] \in {GPU_MAT_SUCCESS, GPU_MAT_FAILED} /\ n_compile = <<1, 0>>
  /\ Cardinality(LiveComps) = 1 /\ \A c \in LiveComps : comp[c].queue = <<2>>
  /\ dsh_live = <<0, 1>> /\ submit_order = <<2>>
  /\ Cardinality(ctx_live) + (IF use_main_context THEN 1 ELSE 0) = 1

\* ---------------------------------------------------------------- C37

\* C37: a BLENDER_REQUIRE(name) directive resolves to the registered fragment
\* whose name is exactly the name written in it, also when another registered
\* name is a prefix of it: the search finds that fragment, the dependencies
\* stored at registration and those computed for the expanded code have its
\* bit.
C37_ExactNameLookup ==
  /\ \A n \in Names : ExactIndex(n) # -1 => LookupIndex(n) = ExactIndex(n)
  /\ \A i \in Registered : \A n \in ReqSet(libs[i]) :
       ExactIndex(n) \in 0..(i - 1) => HasBit(libs_deps[i], ExactIndex(n))
  /\ lib_op = "create_shader_string" =>
       \A n \in ReqSet(shader_code) :
          ExactIndex(n) # -1 => HasBit(shader_deps, ExactIndex(n))

\* C37: "a" was registered, then "ab"; code with the one directive
\* BLENDER_REQUIRE(ab) was expanded and got the source of "a", not of "ab".
C37_PrefixShadows ==
  /\ lib_op = "create_shader_string"
  /\ libs_name[0] = <<1>> /\ libs_name[1] = <<1, 2>> /\ Registered = {0, 1}
  /\ shader_code.req = << <<1, 2>> >>
  /\ LookupIndex(<<1, 2>>) = 0 /\ ExactIndex(<<1, 2>>) = 1
  /\ shader_string = <<libs[0], shader_code>>

\* ---------------------------------------------------------------- C38

\* What does hold of the stored dependencies: no bit above the fragment's own
\* index, the search of lines 538-551 stopping at the first empty slot.
AddFile_DepsNotAbove ==
  \A i \in Registered : BitsOf(libs_deps[i]) \subseteq 0..i

\* C38: in every reachable state of the library the registered fragments
\* occupy the slots 0..n-1 in registration order (a registration fills the
\* first empty slot and leaves the others as they are), and the dependency
\* bitmap of the fragment at index i has bits only at indices strictly lower
\* than i: a fragment never depends on itself or on a later-registered
\* fragment, even when its source has a directive naming itself.
C38_DepsStrictlyLower ==
  [][/\ Registered' = 0..(Cardinality(Registered') - 1)
     /\ Registered \subseteq Registered'
     /\ Registered' \ Registered \subseteq {Cardinality(Registered)}
     /\ \A i \in Registered :
          /\ libs'[i] = libs[i]
          /\ libs_name'[i] = libs_name[i]
          /\ libs_deps'[i] = libs_deps[i]
     /\ \A i \in Slots \ Registered' : libs_deps'[i] = 0
     /\ \A i \in Registered' : BitsOf(libs_deps'[i]) \subseteq 0..(i - 1)]_vars

\* C38: the file "b", whose source has the directive BLENDER_REQUIRE(b), was
\* registered second; its dependency bitmap has its own bit.
C38_SelfDependency ==
  /\ Registered = {0, 1} /\ libs_name[0] = <<1>> /\ libs_name[1] = <<2>>
  /\ libs[1] = Source(<<2>>, << <<2>> >>)
  /\ libs_deps[1] = Bit(1)

\* ---------------------------------------------------------------- C39

\* The worker thread is between GPU_context_main_lock (line 105) and
\* GPU_context_main_unlock (line 161): inside the loop or just out of it.
Exec_InsideMainLock ==
  wpc \in {"lock", "pop", "mutex", "compile", "compiling", "flush", "relock",
           "conclude", "exit"}

\* C39: when the main-context workaround is active, every compiler instance
\* uses the main drawing context and none is created; own_context is false
\* for the whole life of every instance, migrated or not; no teardown
\* destroys a context; and the worker holds the main-context lock from before
\* its first pop until after it has left the loop.
C39_MainContextWorkaround ==
  use_main_context =>
     /\ \A c \in LiveComps :
          comp[c].gl_context = DST_gl_context /\ ~comp[c].own_context
     /\ ctx_live = {}
     /\ \A x \in Contexts : n_dispose[x] = 0
     /\ w_ctx \in {NULL, DST_gl_context}
     /\ Exec_InsideMainLock <=> main_lock = "worker"
     /\ Exec_InsideMainLock => w_ctx = DST_gl_context

\* C39: with the workaround active the first instance was replaced by a second
\* one that took over its queue and was torn down; the worker of the second
\* holds the main-context lock and is compiling in the main context.
C39_Witness ==
  /\ use_main_context
  /\ comp[1].mem = "freed" /\ RunComp = 2 /\ ~comp[2].own_context
  /\ wpc = "compiling" /\ main_lock = "worker" /\ w_ctx = DST_gl_context
  /\ comp[2].shaders_done = 2

\* ---------------------------------------------------------------- C40

\* The worker thread is between BLI_mutex_lock (line 133) and
\* BLI_mutex_unlock (line 145) of compilation_lock.
Exec_CompileInFlight == wpc \in {"compile", "compiling", "flush"}

\* C40: compilation_lock is held by the worker exactly while one compile is in
\* flight: it is acquired while list_lock is still held, in the critical
\* section that set mat_compiling, and released after the compile and the
\* flush and before list_lock is re-acquired; the worker's acquisition never
\* waits, the only other acquirer (remove) taking and releasing the lock
\* while it holds list_lock.
C40_CompilationLockProtocol ==
  /\ \A c \in Comps :
       /\ comp[c].compilation_lock \in {"free", "worker"}
       /\ comp[c].compilation_lock = "worker" <=>
            (job.running /\ c = RunComp /\ Exec_CompileInFlight)
  /\ wpc = "mutex" =>
       /\ comp[RunComp].list_lock = "worker"
       /\ comp[RunComp].mat_compiling # NULL
       /\ comp[RunComp].compilation_lock = "free"
  /\ Exec_CompileInFlight =>
       /\ comp[RunComp].list_lock # "worker"
       /\ comp[RunComp].mat_compiling # NULL
  /\ wpc \in {"relock", "conclude"} => comp[RunComp].compilation_lock = "free"
  /\ mpc = "remove_wait" =>
       /\ comp[m_comp].list_lock = "main"
       /\ wpc # "mutex" \/ m_comp # RunComp

\* C40: the worker has popped its second request and is about to take
\* compilation_lock under list_lock, while DRW_deferred_shader_remove of the
\* same unit, on the same instance, is waiting for list_lock.
C40_Witness ==
  /\ wpc = "mutex" /\ comp[RunComp].shaders_done = 2
  /\ mpc = "remove" /\ m_call.mat = comp[RunComp].mat_compiling
  /\ WM_jobs_customdata_get(job) = RunComp
  /\ comp[RunComp].compilation_lock = "free"

====
